---- MODULE Spec2Model ----
(***************************************************************************)
(* A model of claude-config-manager's core crate: the configuration        *)
(* document and its JSON form (config/mod.rs, types.rs), the validator     *)
(* (config/validation.rs), the merger (config/merge.rs), the backup store  *)
(* (backup/mod.rs) and the backed-up atomic write path                     *)
(* (config/manager.rs), over a small POSIX-like filesystem.                *)
(***************************************************************************)
EXTENDS Integers, Sequences, FiniteSets, TLC

(***************************************************************************)
(* Bounds of the model.                                                    *)
(***************************************************************************)
\* Number of write_config_with_backup / read_config calls one run starts.
MaxCalls == 2
\* The clock's last millisecond; backup names carry the clock's value.
MaxClock == 1
\* The retention count the BackupManager is constructed with.
retention_count == 1
\* Number of backup store calls and file edits one run makes.
MaxStoreOps == 4

\* Number of write_config_with_backup calls a run of writes to one path makes.
MaxWrites == 3

\* The largest depth limit a search is given.
MaxDepth == 3

(***************************************************************************)
(* Option<T> and serde_json::Value.                                        *)
(***************************************************************************)
None == [some |-> FALSE]
Some(v) == [some |-> TRUE, val |-> v]

JNull == [t |-> "null"]
JBool(b) == [t |-> "bool", b |-> b]
JNum(n) == [t |-> "num", n |-> n]
JStr(s) == [t |-> "str", s |-> s]
JArr(a) == [t |-> "arr", a |-> a]
JObj(o) == [t |-> "obj", o |-> o]

\* The empty map (HashMap::new()) and the empty list (Vec::new()).
EmptyMap == <<>>

\* m with the entries of keys outside ks removed.
Restrict(m, ks) == [k \in (DOMAIN m) \cap ks |-> m[k]]

\* HashMap::insert of every entry of over into base (over wins).
InsertAll(base, over) == over @@ base

StrArr(a) == JArr([i \in DOMAIN a |-> JStr(a[i])])
StrObj(m) == JObj([k \in DOMAIN m |-> JStr(m[k])])

IsStrArr(j) == j.t = "arr" /\ \A i \in DOMAIN j.a : j.a[i].t = "str"
IsStrObj(j) == j.t = "obj" /\ \A k \in DOMAIN j.o : j.o[k].t = "str"
UnStrArr(j) == [i \in DOMAIN j.a |-> j.a[i].s]
UnStrObj(j) == [k \in DOMAIN j.o |-> j.o[k].s]

(***************************************************************************)
(* McpServer and Skill (types.rs) with their derived Serialize and         *)
(* Deserialize.  `name` carries #[serde(skip_deserializing)] only: the     *)
(* derive writes the field and, when reading, ignores it and leaves        *)
(* String::default().                                                      *)
(***************************************************************************)
McpServer(name, enabled, command, args, env) ==
    [name |-> name, enabled |-> enabled, command |-> command,
     args |-> args, env |-> env]

Skill(name, enabled, parameters) ==
    [name |-> name, enabled |-> enabled, parameters |-> parameters]

SerializeServer(s) ==
    JObj(("name" :> JStr(s.name))
         @@ ("enabled" :> JBool(s.enabled))
         @@ (IF s.command.some THEN "command" :> JStr(s.command.val) ELSE EmptyMap)
         @@ ("args" :> StrArr(s.args))
         @@ ("env" :> StrObj(s.env)))

SerializeSkill(k) ==
    JObj(("name" :> JStr(k.name))
         @@ ("enabled" :> JBool(k.enabled))
         @@ (IF k.parameters.some THEN "parameters" :> k.parameters.val ELSE EmptyMap))

\* Whether the derive accepts j as an McpServer / a Skill.
ServerShape(j) ==
    /\ j.t = "obj"
    /\ "enabled" \in DOMAIN j.o /\ j.o["enabled"].t = "bool"
    /\ "command" \in DOMAIN j.o => j.o["command"].t \in {"str", "null"}
    /\ "args" \in DOMAIN j.o => IsStrArr(j.o["args"])
    /\ "env" \in DOMAIN j.o => IsStrObj(j.o["env"])

SkillShape(j) ==
    /\ j.t = "obj"
    /\ "enabled" \in DOMAIN j.o /\ j.o["enabled"].t = "bool"

DeserializeServer(j) ==
    McpServer("",
              j.o["enabled"].b,
              IF "command" \in DOMAIN j.o /\ j.o["command"].t = "str"
                  THEN Some(j.o["command"].s) ELSE None,
              IF "args" \in DOMAIN j.o THEN UnStrArr(j.o["args"]) ELSE <<>>,
              IF "env" \in DOMAIN j.o THEN UnStrObj(j.o["env"]) ELSE EmptyMap)

DeserializeSkill(j) ==
    Skill("",
          j.o["enabled"].b,
          IF "parameters" \in DOMAIN j.o /\ j.o["parameters"].t # "null"
              THEN Some(j.o["parameters"]) ELSE None)

(***************************************************************************)
(* ClaudeConfig (config/mod.rs): four optional sections and the flattened  *)
(* map of unknown fields.                                                  *)
(***************************************************************************)
KnownKeys == {"mcpServers", "allowedPaths", "skills", "customInstructions"}

ClaudeConfig(servers, paths, skills, instructions, unknown) ==
    [mcp_servers |-> servers, allowed_paths |-> paths, skills |-> skills,
     custom_instructions |-> instructions, unknown |-> unknown]

\* ClaudeConfig::new()
NewConfig == ClaudeConfig(None, None, None, None, EmptyMap)

\* A serializer without the flattened unknown map.
SerializeDropUnknown(d) ==
    JObj((IF d.mcp_servers.some
             THEN "mcpServers" :> JObj([n \in DOMAIN d.mcp_servers.val |->
                                          SerializeServer(d.mcp_servers.val[n])])
             ELSE EmptyMap)
         @@ (IF d.allowed_paths.some
             THEN "allowedPaths" :> StrArr(d.allowed_paths.val) ELSE EmptyMap)
         @@ (IF d.skills.some
             THEN "skills" :> JObj([n \in DOMAIN d.skills.val |->
                                      SerializeSkill(d.skills.val[n])])
             ELSE EmptyMap)
         @@ (IF d.custom_instructions.some
             THEN "customInstructions" :> StrArr(d.custom_instructions.val)
             ELSE EmptyMap))

\* serde_json::to_value / to_string_pretty of a ClaudeConfig: a section is
\* written when it is Some, the unknown map is flattened into the object.
Serialize(d) ==
    JObj((IF d.mcp_servers.some
             THEN "mcpServers" :> JObj([n \in DOMAIN d.mcp_servers.val |->
                                          SerializeServer(d.mcp_servers.val[n])])
             ELSE EmptyMap)
         @@ (IF d.allowed_paths.some
             THEN "allowedPaths" :> StrArr(d.allowed_paths.val) ELSE EmptyMap)
         @@ (IF d.skills.some
             THEN "skills" :> JObj([n \in DOMAIN d.skills.val |->
                                      SerializeSkill(d.skills.val[n])])
             ELSE EmptyMap)
         @@ (IF d.custom_instructions.some
             THEN "customInstructions" :> StrArr(d.custom_instructions.val)
             ELSE EmptyMap)
         @@ d.unknown)

\* Whether serde_json::from_str::<ClaudeConfig> accepts the JSON value j.
ConfigShape(j) ==
    /\ j.t = "obj"
    /\ "mcpServers" \in DOMAIN j.o =>
          \/ j.o["mcpServers"].t = "null"
          \/ /\ j.o["mcpServers"].t = "obj"
             /\ \A n \in DOMAIN j.o["mcpServers"].o : ServerShape(j.o["mcpServers"].o[n])
    /\ "allowedPaths" \in DOMAIN j.o =>
          j.o["allowedPaths"].t = "null" \/ IsStrArr(j.o["allowedPaths"])
    /\ "skills" \in DOMAIN j.o =>
          \/ j.o["skills"].t = "null"
          \/ /\ j.o["skills"].t = "obj"
             /\ \A n \in DOMAIN j.o["skills"].o : SkillShape(j.o["skills"].o[n])
    /\ "customInstructions" \in DOMAIN j.o =>
          j.o["customInstructions"].t = "null" \/ IsStrArr(j.o["customInstructions"])

\* The ClaudeConfig the derive builds from an accepted JSON value.
Deserialize(j) ==
    ClaudeConfig(
        IF "mcpServers" \in DOMAIN j.o /\ j.o["mcpServers"].t = "obj"
            THEN Some([n \in DOMAIN j.o["mcpServers"].o |->
                          DeserializeServer(j.o["mcpServers"].o[n])])
            ELSE None,
        IF "allowedPaths" \in DOMAIN j.o /\ j.o["allowedPaths"].t = "arr"
            THEN Some(UnStrArr(j.o["allowedPaths"])) ELSE None,
        IF "skills" \in DOMAIN j.o /\ j.o["skills"].t = "obj"
            THEN Some([n \in DOMAIN j.o["skills"].o |->
                          DeserializeSkill(j.o["skills"].o[n])])
            ELSE None,
        IF "customInstructions" \in DOMAIN j.o /\ j.o["customInstructions"].t = "arr"
            THEN Some(UnStrArr(j.o["customInstructions"])) ELSE None,
        Restrict(j.o, (DOMAIN j.o) \ KnownKeys))

(***************************************************************************)
(* The validator (config/validation.rs).  A rule returns "Ok" or fails;    *)
(* validate_config returns the first failing rule's name.                  *)
(***************************************************************************)
\* The path strings of the model that hold a NUL character.
NulPaths == {"a\\0b"}

McpServersRule(config) ==
    IF config.mcp_servers.some /\ "" \in DOMAIN config.mcp_servers.val
        THEN "McpServersRule" ELSE "Ok"

AllowedPathsRule(config) ==
    IF /\ config.allowed_paths.some
       /\ \E i \in DOMAIN config.allowed_paths.val :
              \/ config.allowed_paths.val[i] = ""
              \/ config.allowed_paths.val[i] \in NulPaths
        THEN "AllowedPathsRule" ELSE "Ok"

SkillsRule(config) ==
    IF config.skills.some /\ "" \in DOMAIN config.skills.val
        THEN "SkillsRule" ELSE "Ok"

\* A validator that runs no rule.
validate_config_accept_all(config) == "Ok"

\* A validator that runs the skills rule before the paths rule.
validate_config_skills_first(config) ==
    IF McpServersRule(config) # "Ok" THEN McpServersRule(config)
    ELSE IF SkillsRule(config) # "Ok" THEN SkillsRule(config)
    ELSE AllowedPathsRule(config)

validate_config(config) ==
    IF McpServersRule(config) # "Ok" THEN McpServersRule(config)
    ELSE IF AllowedPathsRule(config) # "Ok" THEN AllowedPathsRule(config)
    ELSE SkillsRule(config)

(***************************************************************************)
(* The merger (config/merge.rs).                                           *)
(***************************************************************************)
MergeMap(base, over) ==
    IF over.some
        THEN Some(InsertAll(IF base.some THEN base.val ELSE EmptyMap, over.val))
        ELSE base

\* merge_configs with the two maps inserted the other way round.
merge_configs_base_wins(base_config, override_config) ==
    ClaudeConfig(
        MergeMap(override_config.mcp_servers, base_config.mcp_servers),
        IF override_config.allowed_paths.some
            THEN override_config.allowed_paths ELSE base_config.allowed_paths,
        MergeMap(override_config.skills, base_config.skills),
        IF override_config.custom_instructions.some
            THEN override_config.custom_instructions
            ELSE base_config.custom_instructions,
        InsertAll(override_config.unknown, base_config.unknown))

\* merge_configs with an empty override list treated as an absent one.
merge_configs_empty_keeps_base(base_config, override_config) ==
    ClaudeConfig(
        MergeMap(base_config.mcp_servers, override_config.mcp_servers),
        IF override_config.allowed_paths.some /\ override_config.allowed_paths.val # <<>>
            THEN override_config.allowed_paths ELSE base_config.allowed_paths,
        MergeMap(base_config.skills, override_config.skills),
        IF override_config.custom_instructions.some
              /\ override_config.custom_instructions.val # <<>>
            THEN override_config.custom_instructions
            ELSE base_config.custom_instructions,
        InsertAll(base_config.unknown, override_config.unknown))

\* merge_configs that merges a map of the override only into a map the base
\* already has.
merge_configs_needs_base_map(base_config, override_config) ==
    ClaudeConfig(
        IF base_config.mcp_servers.some
            THEN MergeMap(base_config.mcp_servers, override_config.mcp_servers)
            ELSE None,
        IF override_config.allowed_paths.some
            THEN override_config.allowed_paths ELSE base_config.allowed_paths,
        IF base_config.skills.some
            THEN MergeMap(base_config.skills, override_config.skills)
            ELSE None,
        IF override_config.custom_instructions.some
            THEN override_config.custom_instructions
            ELSE base_config.custom_instructions,
        InsertAll(base_config.unknown, override_config.unknown))

merge_configs(base_config, override_config) ==
    ClaudeConfig(
        MergeMap(base_config.mcp_servers, override_config.mcp_servers),
        IF override_config.allowed_paths.some
            THEN override_config.allowed_paths ELSE base_config.allowed_paths,
        MergeMap(base_config.skills, override_config.skills),
        IF override_config.custom_instructions.some
            THEN override_config.custom_instructions
            ELSE base_config.custom_instructions,
        InsertAll(base_config.unknown, override_config.unknown))

\* The fold with the layers taken in the reverse order.
merge_layers_session_first(global, project, session) ==
    merge_configs(merge_configs(session, project), global)

\* merge_configs(&merge_configs(&global, &project), &session)
merge_layers(global, project, session) ==
    merge_configs(merge_configs(global, project), session)

(***************************************************************************)
(* The differ (config/manager.rs).  A key path is the sequence of the      *)
(* pieces between the dots of its string: "" is <<"">>, "a.b" is           *)
(* <<"a", "b">>, whether a.b is one key or key b under key a.              *)
(***************************************************************************)
\* The keys of the model that contain a dot, split at the dots.
DottedKeys == "futureFeature.x" :> <<"futureFeature", "x">>

Split(key) == IF key \in DOMAIN DottedKeys THEN DottedKeys[key] ELSE <<key>>

EmptyPath == <<"">>

\* starts_with, on strings held as their pieces.
IsPrefix(p, q) == Len(p) <= Len(q) /\ SubSeq(q, 1, Len(p)) = p

\* if key_path.is_empty() { key.clone() } else { format!("{key_path}.{key}") }
KeyPath(key_path, key) ==
    IF key_path = EmptyPath THEN Split(key) ELSE key_path \o Split(key)

\* The keys of the model in the order a serde_json::Map iterates them.
KeyOrder ==
    <<"", "KEY", "allowedPaths", "args", "command", "customInstructions", "deep", "enabled",
      "env", "futureFeature", "futureFeature.x", "k", "level", "lint", "list", "mcpServers",
      "n", "name", "npx", "parameters", "review", "setting", "skills", "theme",
      "unknownField", "uvx", "x">>

Keys(map) == SelectSeq(KeyOrder, LAMBDA k : k \in DOMAIN map)

Added(key_path, value) == [kind |-> "Added", key_path |-> key_path, value |-> value]
Removed(key_path, value) == [kind |-> "Removed", key_path |-> key_path, value |-> value]
Modified(key_path, old_value, new_value) ==
    [kind |-> "Modified", key_path |-> key_path,
     old_value |-> old_value, new_value |-> new_value]

\* diffs.push(diff); source_map.insert(key_path, scope)
Push(acc, diff, key_path, scope) ==
    [diffs |-> Append(acc.diffs, diff), sources |-> (key_path :> scope) @@ acc.sources]

\* source_map.insert(key_path, scope)
Attribute(acc, key_path, scope) ==
    [acc EXCEPT !.sources = (key_path :> scope) @@ acc.sources]

\* compare_values: the loop over global's keys.
RECURSIVE CompareKeys(_, _, _, _, _, _)
CompareKeys(global_map, project_map, key_path, keys, acc, global_scope) ==
    IF keys = <<>> THEN acc
    ELSE LET key == Head(keys)
             global_value == global_map[key]
             new_key_path == KeyPath(key_path, key)
             next ==
                 IF key \in DOMAIN project_map
                     THEN IF global_value # project_map[key]
                              THEN Push(acc, Modified(new_key_path, global_value,
                                                      project_map[key]),
                                        new_key_path, "Project")
                              ELSE Attribute(acc, new_key_path, global_scope)
                     ELSE Push(acc, Removed(new_key_path, global_value),
                               new_key_path, "Global")
         IN  CompareKeys(global_map, project_map, key_path, Tail(keys), next, global_scope)

compare_values(global, project, key_path, acc, global_scope) ==
    IF global.t = "obj" /\ project.t = "obj"
        THEN CompareKeys(global.o, project.o, key_path, Keys(global.o), acc, global_scope)
    ELSE IF global.t = "arr" /\ project.t = "arr"
        THEN IF global.a # project.a
                 THEN Push(acc, Modified(key_path, JArr(global.a), JArr(project.a)),
                           key_path, "Project")
                 ELSE acc
    ELSE IF global # project
        THEN Push(acc, Modified(key_path, global, project), key_path, "Project")
        ELSE acc

\* find_additions without the recursion into the added objects.
find_additions_flat(global, project, key_path, acc, project_scope) ==
    IF global.t = "obj" /\ project.t = "obj"
        THEN LET RECURSIVE Loop(_, _)
                 Loop(keys, a) ==
                     IF keys = <<>> THEN a
                     ELSE Loop(Tail(keys),
                               IF Head(keys) \in DOMAIN global.o THEN a
                               ELSE Push(a, Added(KeyPath(key_path, Head(keys)),
                                                  project.o[Head(keys)]),
                                         KeyPath(key_path, Head(keys)), project_scope))
             IN  Loop(Keys(project.o), acc)
        ELSE acc

RECURSIVE find_additions(_, _, _, _, _)
RECURSIVE AdditionKeys(_, _, _, _, _, _)
\* find_additions: the loop over project's keys.
AdditionKeys(global_map, project_map, key_path, keys, acc, project_scope) ==
    IF keys = <<>> THEN acc
    ELSE LET key == Head(keys)
             project_value == project_map[key]
             new_key_path == KeyPath(key_path, key)
             added == Push(acc, Added(new_key_path, project_value),
                           new_key_path, project_scope)
             next ==
                 IF key \in DOMAIN global_map THEN acc
                 ELSE IF project_value.t = "obj"
                     THEN find_additions(JObj(EmptyMap), project_value, new_key_path,
                                         added, project_scope)
                     ELSE added
         IN  AdditionKeys(global_map, project_map, key_path, Tail(keys), next, project_scope)

find_additions(global, project, key_path, acc, project_scope) ==
    IF global.t = "obj" /\ project.t = "obj"
        THEN AdditionKeys(global.o, project.o, key_path, Keys(project.o), acc, project_scope)
        ELSE acc

\* serde_json::to_value(&project_config) of an Option<ClaudeConfig>
SerializeOption(project_config) ==
    IF project_config.some THEN Serialize(project_config.val) ELSE JNull

\* diff_configs without the pass over project's keys.
diff_configs_no_additions(global_config, project_config) ==
    compare_values(Serialize(global_config), SerializeOption(project_config), EmptyPath,
                   [diffs |-> <<>>, sources |-> <<>>], "Global")

\* diff_configs, from the two documents get_global_config and
\* get_project_config return.
diff_configs(global_config, project_config) ==
    LET global_json == Serialize(global_config)
        project_json == SerializeOption(project_config)
        compared == compare_values(global_json, project_json, EmptyPath,
                                   [diffs |-> <<>>, sources |-> <<>>], "Global")
    IN  find_additions(global_json, project_json, EmptyPath, compared, "Project")

\* get_merged_config, from the same two documents.
get_merged_config(global_config, project_config) ==
    IF project_config.some
        THEN merge_configs(global_config, project_config.val)
        ELSE global_config

(***************************************************************************)
(* The search engine (search.rs).  Key paths and texts are strings.        *)
(***************************************************************************)
\* char::to_lowercase for the letters of the model.
LowerCase ==
    ("A" :> "a") @@ ("B" :> "b") @@ ("C" :> "c") @@ ("D" :> "d") @@ ("E" :> "e") @@ ("F" :> "f") @@
    ("G" :> "g") @@ ("H" :> "h") @@ ("I" :> "i") @@ ("J" :> "j") @@ ("K" :> "k") @@ ("L" :> "l") @@
    ("M" :> "m") @@ ("N" :> "n") @@ ("O" :> "o") @@ ("P" :> "p") @@ ("Q" :> "q") @@ ("R" :> "r") @@
    ("S" :> "s") @@ ("T" :> "t") @@ ("U" :> "u") @@ ("V" :> "v") @@ ("W" :> "w") @@ ("X" :> "x") @@
    ("Y" :> "y") @@ ("Z" :> "z")

\* str::to_lowercase
RECURSIVE to_lowercase(_)
to_lowercase(text) ==
    IF text = "" THEN ""
    ELSE LET c == SubSeq(text, 1, 1)
         IN  (IF c \in DOMAIN LowerCase THEN LowerCase[c] ELSE c)
                 \o to_lowercase(SubSeq(text, 2, Len(text)))

\* str::contains
contains(text, query) ==
    \E i \in 1..(Len(text) - Len(query) + 1) : SubSeq(text, i, i + Len(query) - 1) = query

\* SearchOptions and SearchOptions::default()
SearchOptions(search_keys, search_values, case_sensitive, max_depth) ==
    [search_keys |-> search_keys, search_values |-> search_values,
     case_sensitive |-> case_sensitive, max_depth |-> max_depth]

DefaultOptions == SearchOptions(TRUE, FALSE, FALSE, None)

\* ConfigSearcher::matches
matches(options, query, text) ==
    IF options.case_sensitive
        THEN contains(text, query)
        ELSE contains(to_lowercase(text), to_lowercase(query))

\* SearchResult::new
SearchResult(key_path, value, source, value_type) ==
    [key_path |-> key_path, value |-> value, source |-> source, value_type |-> value_type]

\* ConfigSearcher::search_value; SearchEntries is the loop over the entries
\* of an object, SearchElements the loop over the elements of an array.
RECURSIVE search_value(_, _, _, _, _, _, _)
RECURSIVE SearchEntries(_, _, _, _, _, _, _, _)
RECURSIVE SearchElements(_, _, _, _, _, _, _, _)
SearchEntries(options, query, map, keys, current_path, results, source, depth) ==
    IF keys = <<>> THEN results
    ELSE LET key == Head(keys)
             new_path == IF current_path = "" THEN key ELSE current_path \o "." \o key
             pushed == IF options.search_keys /\ matches(options, query, key)
                       THEN Append(results,
                                   SearchResult(new_path, "<key> " \o key, source, "String"))
                       ELSE results
         IN  SearchEntries(options, query, map, Tail(keys), current_path,
                           search_value(options, query, map[key], new_path, pushed, source,
                                        depth + 1),
                           source, depth)

SearchElements(options, query, arr, n, current_path, results, source, depth) ==
    IF n > Len(arr) THEN results
    ELSE LET new_path == current_path \o "[" \o ToString(n - 1) \o "]"
         IN  SearchElements(options, query, arr, n + 1, current_path,
                            search_value(options, query, arr[n], new_path, results, source,
                                         depth + 1),
                            source, depth)

search_value(options, query, value, current_path, results, source, depth) ==
    IF options.max_depth.some /\ depth > options.max_depth.val THEN results
    ELSE CASE value.t = "obj" ->
                 SearchEntries(options, query, value.o, Keys(value.o), current_path, results,
                               source, depth)
           [] value.t = "arr" ->
                 SearchElements(options, query, value.a, 1, current_path, results, source,
                                depth)
           [] value.t = "str" ->
                 IF options.search_values /\ matches(options, query, value.s)
                     THEN Append(results,
                                 SearchResult(current_path, value.s, source, "String"))
                     ELSE results
           [] value.t = "num" ->
                 IF options.search_values /\ matches(options, query, ToString(value.n))
                     THEN Append(results,
                                 SearchResult(current_path, ToString(value.n), source,
                                              "Number"))
                     ELSE results
           [] value.t = "bool" ->
                 IF options.search_values
                        /\ matches(options, query, IF value.b THEN "true" ELSE "false")
                     THEN Append(results,
                                 SearchResult(current_path,
                                              IF value.b THEN "true" ELSE "false", source,
                                              "Boolean"))
                     ELSE results
           [] OTHER -> results

\* A search that counts the root object as depth 1.
search_root_at_one(options, query, config, source) ==
    search_value(options, query, Serialize(config), "", <<>>, source, 1)

\* ConfigSearcher::search
search(options, query, config, source) ==
    search_value(options, query, Serialize(config), "", <<>>, source, 0)

(***************************************************************************)
(* read_config on a file serde_json rejects (config/manager.rs): the       *)
(* error's text is searched for its line and column.  Strings are indexed  *)
(* from 0, as in the source.                                               *)
(***************************************************************************)
\* str::find: the index of the first occurrence, or None.
find(text, pat) ==
    LET at == {i \in 0..(Len(text) - Len(pat)) : SubSeq(text, i + 1, i + Len(pat)) = pat}
    IN  IF at = {} THEN None ELSE Some(CHOOSE i \in at : \A j \in at : i <= j)

\* &text[from..]
SliceFrom(text, from) == SubSeq(text, from + 1, Len(text))

\* Whether &text[from..to] panics: the range is reversed or out of bounds.
SlicePanics(text, from, to) == from > to \/ to > Len(text)

\* &text[from..to]
Slice(text, from, to) == SubSeq(text, from + 1, to)

Digits ==
    ("0" :> 0) @@ ("1" :> 1) @@ ("2" :> 2) @@ ("3" :> 3) @@ ("4" :> 4) @@
    ("5" :> 5) @@ ("6" :> 6) @@ ("7" :> 7) @@ ("8" :> 8) @@ ("9" :> 9)

\* str::parse::<usize>: digits after an optional plus sign.
RECURSIVE ParseDigits(_, _)
ParseDigits(text, acc) ==
    IF text = "" THEN Some(acc)
    ELSE IF SubSeq(text, 1, 1) \in DOMAIN Digits
         THEN ParseDigits(SubSeq(text, 2, Len(text)), 10 * acc + Digits[SubSeq(text, 1, 1)])
         ELSE None

parse_usize(text) ==
    LET digits == IF Len(text) > 0 /\ SubSeq(text, 1, 1) = "+"
                  THEN SubSeq(text, 2, Len(text)) ELSE text
    IN  IF digits = "" THEN None ELSE ParseDigits(digits, 0)

Located(line, column) == [panics |-> FALSE, line |-> line, column |-> column]
Panics == [panics |-> TRUE]

\* parse_json_error_location
parse_json_error_location(error_msg) ==
    LET line_pos == find(error_msg, "line ")
    IN  IF ~line_pos.some THEN Located(0, 0)
        ELSE
        LET colon_pos == find(SliceFrom(error_msg, line_pos.val + 5), ",")
        IN  IF ~colon_pos.some THEN Located(0, 0)
            ELSE IF SlicePanics(error_msg, line_pos.val + 5, line_pos.val + colon_pos.val)
            THEN Panics
            ELSE
            LET line == parse_usize(Slice(error_msg, line_pos.val + 5,
                                          line_pos.val + colon_pos.val))
                col_pos == find(error_msg, "column ")
            IN  IF ~line.some \/ ~col_pos.some THEN Located(0, 0)
                ELSE
                LET end == find(SliceFrom(error_msg, col_pos.val + 7), ",")
                IN  IF ~end.some THEN Located(0, 0)
                    ELSE
                    LET column == parse_usize(Slice(error_msg, col_pos.val + 7,
                                                    col_pos.val + 7 + end.val))
                    IN  IF column.some THEN Located(line.val, column.val)
                        ELSE Located(0, 0)

\* The text of the serde_json error for a document that is not JSON, and
\* for a document in which a section that must be a map is the string s.
SyntaxMessage(code, line, column) ==
    code \o " at line " \o ToString(line) \o " column " \o ToString(column)

InvalidTypeMessage(s, line, column) ==
    SyntaxMessage("invalid type: string \"" \o s \o "\", expected a map", line, column)

\* read_config on an existing, readable file whose content serde_json
\* rejects with the message error_str.
read_config_rejected(error_str) ==
    LET location == parse_json_error_location(error_str)
    IN  IF location.panics THEN [ok |-> FALSE, kind |-> "panic"]
        ELSE [ok |-> FALSE, kind |-> "InvalidJson", line |-> location.line,
              column |-> location.column, message |-> error_str]

(***************************************************************************)
(* Documents and files of the model.                                       *)
(***************************************************************************)
ServerNpx == McpServer("npx", TRUE, Some("npx"), <<"-y">>, EmptyMap)
ServerUvx == McpServer("uvx", FALSE, None, <<>>, "KEY" :> "v")
ServerNoName == McpServer("", TRUE, Some("npx"), <<>>, EmptyMap)
SkillReview == Skill("review", TRUE, Some(JObj("level" :> JObj("n" :> JNum(1)))))

\* A valid document built with the builder methods of config/mod.rs.
DocBuilt ==
    ClaudeConfig(Some("npx" :> ServerNpx), Some(<<"~/projects">>),
                 Some("review" :> SkillReview), None,
                 "futureFeature" :> JObj("x" :> JNum(1)))

\* The invalid document of test_atomic_write_preserves_original.
DocInvalid ==
    ClaudeConfig(Some("" :> ServerNoName), None, None, None, EmptyMap)

\* The documents a caller passes to write_config_with_backup.
Docs == {NewConfig, DocBuilt, DocInvalid}

\* The documents found on disk before the first call (hand-written JSON).
InitialJsons ==
    {JObj(("mcpServers" :> JObj("npx" :> JObj("enabled" :> JBool(TRUE))))
          @@ ("futureFeature" :> JObj("setting" :> JNum(42)))
          @@ ("unknownField" :> JStr("preserved value")))}

\* What a caller does to a loaded document before saving it: it sets known
\* sections and leaves `unknown` alone.
Modifications(cfg) ==
    {cfg,
     [cfg EXCEPT !.custom_instructions = Some(<<"modified">>)],
     [cfg EXCEPT !.mcp_servers = Some("uvx" :> ServerUvx), !.allowed_paths = None]}

(***************************************************************************)
(* The filesystem.  A file's bytes are a sequence of tokens; the pretty    *)
(* printed text of a JSON value is three tokens, so that a file can hold   *)
(* a proper prefix of a document.                                          *)
(***************************************************************************)
TokOpen == [k |-> "open"]
TokBody(j) == [k |-> "body", j |-> j]
TokClose == [k |-> "close"]
TokHole == [k |-> "hole"]

\* serde_json::to_string_pretty, as bytes.
ToBytes(j) == <<TokOpen, TokBody(j), TokClose>>

\* Whether serde_json::from_str parses the bytes as one JSON value.
WellFormed(b) ==
    Len(b) = 3 /\ b[1] = TokOpen /\ b[2].k = "body" /\ b[3] = TokClose

ParseBytes(b) == b[2].j

NoFile == [exists |-> FALSE]
File(b) == [exists |-> TRUE, bytes |-> b]

Path(stem, ext) == [stem |-> stem, ext |-> ext]

\* Path::with_extension
WithExtension(path, ext) == Path(path.stem, ext)

\* manager.rs: let temp_path = target.with_extension("tmp")
temp_path(target) == WithExtension(target, "tmp")

\* The paths callers write to, and every path of the configuration directory.
TargetPaths == {Path("config", "json"), Path("state", "tmp")}
Paths == TargetPaths \cup {temp_path(t) : t \in TargetPaths}

\* write(2) of one token at offset pos: a gap left by an earlier truncation
\* reads as a hole.
WriteAt(b, pos, tok) ==
    [i \in 1..(IF Len(b) > pos THEN Len(b) ELSE pos + 1) |->
        IF i = pos + 1 THEN tok ELSE IF i <= Len(b) THEN b[i] ELSE TokHole]

Procs == {1, 2}

VARIABLES
    files,      \* configuration directory: path -> NoFile or File(bytes)
    backups,    \* backup directory: set of [stem, ts, ext, bytes]
    backupDir,  \* whether the backup directory exists
    clock,      \* Utc::now() in milliseconds
    calls,      \* number of calls started so far
    pc,         \* per process: where it is in its call
    call,       \* per process: arguments and locals of its call
    loaded,     \* per process: the document it last read, if it holds one
    serialized, \* whether callers make one call at a time (from process 1)
    eval        \* the last application of a pure function: its inputs and output

vars == <<files, backups, backupDir, clock, calls, pc, call, loaded, serialized, eval>>

\* A std::fs::File handle: it follows its file across a rename, and it is
\* detached once the file has no name left.
FhClosed == [st |-> "closed"]
FhDetached == [st |-> "detached"]
FhOpen(path) == [st |-> "open", path |-> path]

Ok == [ok |-> TRUE]
Err(kind, operation) == [ok |-> FALSE, kind |-> kind, operation |-> operation]
Pending == [ok |-> FALSE, kind |-> "pending", operation |-> ""]

NoCall ==
    [op |-> "none", path |-> Path("", ""), config |-> NewConfig, json |-> JNull,
     fh |-> FhClosed, wpos |-> 0, pre |-> NoFile, preTemp |-> NoFile,
     origin |-> "none", orig |-> JNull, result |-> Pending, mcp |-> [op |-> "none"]]

NoEval == [op |-> "none"]

InitState ==
    /\ files \in [Paths -> {NoFile} \cup {File(ToBytes(j)) : j \in InitialJsons}]
    /\ \A t \in Paths \ TargetPaths : files[t] = NoFile
    /\ backups = {}
    /\ backupDir = FALSE
    /\ clock = 0
    /\ calls = 0
    /\ pc = [p \in Procs |-> "idle"]
    /\ call = [p \in Procs |-> NoCall]
    /\ loaded = [p \in Procs |-> None]
    /\ eval = NoEval

\* Processes call concurrently.
Init == InitState /\ serialized = FALSE

\* One call at a time (section 5 of the specification: single-threaded use).
InitSerial == InitState /\ serialized = TRUE

\* Whether process p may start a call now.
MayCall(p) ==
    /\ pc[p] = "idle"
    /\ calls < MaxCalls
    /\ serialized => p = 1

(***************************************************************************)
(* Backup store (backup/mod.rs).                                           *)
(***************************************************************************)
\* format!("{}_{}.{}", file_stem, timestamp, extension)
BackupName(file_path, now) ==
    [stem |-> file_path.stem, ts |-> now, ext |-> file_path.ext]

NameOf(b) == [stem |-> b.stem, ts |-> b.ts, ext |-> b.ext]

\* A create_backup that copies nothing.
CopyToBackupSkipped(bk, name, bytes) == bk

\* A copy that creates the backup file and writes nothing into it.
CopyToBackupEmpty(bk, name, bytes) ==
    {b \in bk : NameOf(b) # name}
        \cup {[stem |-> name.stem, ts |-> name.ts, ext |-> name.ext, bytes |-> <<>>]}

\* fs::copy(file_path, backup_path): creates the backup or overwrites the
\* file of that name.
CopyToBackup(bk, name, bytes) ==
    {b \in bk : NameOf(b) # name}
        \cup {[stem |-> name.stem, ts |-> name.ts, ext |-> name.ext, bytes |-> bytes]}

(***************************************************************************)
(* ConfigManager::read_config (manager.rs).                                *)
(***************************************************************************)
Finish(p, c, result) ==
    /\ call' = [call EXCEPT ![p] = [c EXCEPT !.result = result, !.fh = FhClosed]]
    /\ pc' = [pc EXCEPT ![p] = "done"]

ReadConfig(p, path) ==
    /\ MayCall(p)
    /\ calls' = calls + 1
    /\ LET c == [NoCall EXCEPT !.op = "read", !.path = path, !.pre = files[path]]
       IN  \/ /\ ~files[path].exists
              /\ Finish(p, c, Err("NotFound", "read_config"))
              /\ UNCHANGED loaded
           \/ /\ files[path].exists
              /\ Finish(p, c, Err("Filesystem", "read config file"))
              /\ UNCHANGED loaded
           \/ /\ files[path].exists
              /\ LET b == files[path].bytes
                 IN  IF WellFormed(b) /\ ConfigShape(ParseBytes(b))
                     THEN /\ Finish(p, c, Ok)
                          /\ loaded' = [loaded EXCEPT ![p] =
                                 Some([path |-> path,
                                       config |-> Deserialize(ParseBytes(b)),
                                       json |-> ParseBytes(b)])]
                     ELSE /\ Finish(p, c, Err("InvalidJson", "read_config"))
                          /\ UNCHANGED loaded
    /\ UNCHANGED <<files, backups, backupDir, clock, serialized, eval>>

(***************************************************************************)
(* ConfigManager::write_config_with_backup and atomic_write (manager.rs),  *)
(* one action per filesystem call.                                         *)
(***************************************************************************)
StartWriteAs(p, c, path, config, origin, orig) ==
    /\ MayCall(p)
    /\ calls' = calls + 1
    /\ call' = [call EXCEPT ![p] =
          [c EXCEPT !.op = "write", !.path = path, !.config = config,
                         !.pre = files[path], !.preTemp = files[temp_path(path)],
                         !.origin = origin, !.orig = orig]]
    /\ pc' = [pc EXCEPT ![p] = "w_exists"]
    /\ UNCHANGED <<files, backups, backupDir, clock, serialized, eval>>

StartWrite(p, path, config, origin, orig) ==
    StartWriteAs(p, NoCall, path, config, origin, orig)

\* A caller writes a document it built.
BeginWrite(p, path, config) ==
    /\ StartWrite(p, path, config, "built", JNull)
    /\ UNCHANGED loaded

\* A caller writes back the document it read, after changing known sections.
BeginWriteBack(p) ==
    /\ loaded[p].some
    /\ \E config \in Modifications(loaded[p].val.config) :
          StartWrite(p, loaded[p].val.path, config, "loaded", loaded[p].val.json)
    /\ loaded' = [loaded EXCEPT ![p] = None]

\* manager.rs:103  if path.exists()
WExists(p) ==
    /\ pc[p] = "w_exists"
    /\ pc' = [pc EXCEPT ![p] =
          IF files[call[p].path].exists THEN "w_backup" ELSE "w_validate"]
    /\ UNCHANGED <<files, backups, backupDir, clock, calls, call, loaded, serialized, eval>>

\* manager.rs:105  self.backup_manager.create_backup(path)?
\* (backup/mod.rs:51-94; Utc::now() reads a clock that does not go back).
WBackup(p) ==
    /\ pc[p] = "w_backup"
    /\ LET path == call[p].path
       IN  \/ /\ ~files[path].exists
              /\ Finish(p, call[p], Err("NotFound", "create_backup"))
              /\ UNCHANGED <<backups, backupDir, clock>>
           \/ /\ files[path].exists
              /\ ~backupDir
              /\ Finish(p, call[p], Err("Filesystem", "create backup directory"))
              /\ UNCHANGED <<backups, backupDir, clock>>
           \/ /\ files[path].exists
              /\ Finish(p, call[p], Err("Filesystem", "copy file to backup"))
              /\ backupDir' = TRUE
              /\ UNCHANGED <<backups, clock>>
           \/ /\ files[path].exists
              /\ \E now \in clock..MaxClock :
                    /\ clock' = now
                    /\ backups' = CopyToBackup(backups, BackupName(path, now),
                                               files[path].bytes)
              /\ backupDir' = TRUE
              /\ pc' = [pc EXCEPT ![p] = "w_validate"]
              /\ UNCHANGED call
    /\ UNCHANGED <<files, calls, loaded, serialized, eval>>

\* manager.rs:109-113  validate_config(config)?; serde_json::to_string_pretty
WValidate(p) ==
    /\ pc[p] = "w_validate"
    /\ IF validate_config(call[p].config) # "Ok"
       THEN Finish(p, call[p], Err("ValidationFailed", validate_config(call[p].config)))
       ELSE /\ call' = [call EXCEPT ![p].json = Serialize(call[p].config)]
            /\ pc' = [pc EXCEPT ![p] = "aw_create"]
    /\ UNCHANGED <<files, backups, backupDir, clock, calls, loaded, serialized, eval>>

\* manager.rs:142  File::create(&temp_path): creates the file or truncates it.
\* The parent directory exists in every state of the model (lines 130-135).
AwCreate(p) ==
    /\ pc[p] = "aw_create"
    /\ LET temp == temp_path(call[p].path)
       IN  \/ /\ Finish(p, call[p], Err("Filesystem", "create temp file"))
              /\ UNCHANGED files
           \/ /\ files' = [files EXCEPT ![temp] = File(<<>>)]
              /\ call' = [call EXCEPT ![p].fh = FhOpen(temp), ![p].wpos = 0]
              /\ pc' = [pc EXCEPT ![p] = "aw_write"]
    /\ UNCHANGED <<backups, backupDir, clock, calls, loaded, serialized, eval>>

\* manager.rs:145-150  file.write_all, file.flush, drop(file): one write(2)
\* per token, through the handle.
AwWrite(p) ==
    /\ pc[p] = "aw_write"
    /\ LET c == call[p]
           bytes == ToBytes(c.json)
           last == c.wpos + 1 = Len(bytes)
       IN  \/ /\ Finish(p, c, Err("Filesystem", "write to temp file"))
              /\ UNCHANGED files
           \/ /\ files' = IF c.fh.st = "open"
                     THEN [files EXCEPT ![c.fh.path] =
                             File(WriteAt(files[c.fh.path].bytes, c.wpos,
                                          bytes[c.wpos + 1]))]
                     ELSE files
              /\ call' = [call EXCEPT ![p].wpos = c.wpos + 1,
                                      ![p].fh = IF last THEN FhClosed ELSE c.fh]
              /\ pc' = [pc EXCEPT ![p] = IF last THEN "aw_rename" ELSE "aw_write"]
    /\ UNCHANGED <<backups, backupDir, clock, calls, loaded, serialized, eval>>

\* The handles of the other processes after path `from` got the name `to`
\* (to = from: no change) and the file that had the name `to` lost it.
MoveHandles(c, from, to) ==
    [q \in Procs |->
        IF c[q].fh = FhOpen(to) /\ from # to THEN [c[q] EXCEPT !.fh = FhDetached]
        ELSE IF c[q].fh = FhOpen(from) THEN [c[q] EXCEPT !.fh = FhOpen(to)]
        ELSE c[q]]

DropHandles(c, path) ==
    [q \in Procs |->
        IF c[q].fh = FhOpen(path) THEN [c[q] EXCEPT !.fh = FhDetached] ELSE c[q]]

\* manager.rs:153-157  fs::rename(&temp_path, target), and on failure
\* let _ = fs::remove_file(&temp_path): the removal's result is discarded; it
\* removes the temp file when there is one.  The rename fails when the temp
\* file is gone, and may fail for any other reason.
AwRename(p) ==
    /\ pc[p] = "aw_rename"
    /\ LET target == call[p].path
           temp == temp_path(target)
           failed == [call EXCEPT ![p].result =
                         Err("Filesystem", "atomic rename (temp to config)")]
       IN  \/ /\ files[temp].exists
              /\ files' = IF temp = target THEN files
                          ELSE [files EXCEPT ![target] = files[temp], ![temp] = NoFile]
              /\ call' = MoveHandles([call EXCEPT ![p].result = Ok], temp, target)
           \/ /\ files[temp].exists
              /\ files' = [files EXCEPT ![temp] = NoFile]
              /\ call' = DropHandles(failed, temp)
           \/ /\ ~files[temp].exists
              /\ files' = files
              /\ call' = failed
    /\ pc' = [pc EXCEPT ![p] = "done"]
    /\ UNCHANGED <<backups, backupDir, clock, calls, loaded, serialized, eval>>

\* The call returns to its caller.
Return(p) ==
    /\ pc[p] = "done"
    /\ pc' = [pc EXCEPT ![p] = "idle"]
    /\ call' = [call EXCEPT ![p] = NoCall]
    /\ UNCHANGED <<files, backups, backupDir, clock, calls, loaded, serialized, eval>>

InCall == {"w_exists", "w_backup", "w_validate", "aw_create", "aw_write", "aw_rename"}

\* The process is killed (or the machine loses power) in the middle of a call.
Crash(p) ==
    /\ pc[p] \in InCall
    /\ pc' = [pc EXCEPT ![p] = "crashed"]
    /\ call' = [call EXCEPT ![p].fh = FhClosed]
    /\ loaded' = [loaded EXCEPT ![p] = None]
    /\ UNCHANGED <<files, backups, backupDir, clock, calls, serialized, eval>>

\* The program is started again.
Restart(p) ==
    /\ pc[p] = "crashed"
    /\ pc' = [pc EXCEPT ![p] = "idle"]
    /\ call' = [call EXCEPT ![p] = NoCall]
    /\ UNCHANGED <<files, backups, backupDir, clock, calls, loaded, serialized, eval>>

Next ==
    \/ \E p \in Procs, path \in TargetPaths : ReadConfig(p, path)
    \/ \E p \in Procs, path \in TargetPaths, config \in Docs :
          BeginWrite(p, path, config)
    \/ \E p \in Procs : BeginWriteBack(p)
    \/ \E p \in Procs : WExists(p)
    \/ \E p \in Procs : WBackup(p)
    \/ \E p \in Procs : WValidate(p)
    \/ \E p \in Procs : AwCreate(p)
    \/ \E p \in Procs : AwWrite(p)
    \/ \E p \in Procs : AwRename(p)
    \/ \E p \in Procs : Return(p)
    \/ \E p \in Procs : Crash(p)
    \/ \E p \in Procs : Restart(p)

Spec == Init /\ [][Next]_vars

(***************************************************************************)
(* The pure functions, applied to documents drawn from bounded sets.       *)
(***************************************************************************)
ServerNpxProject == McpServer("npx", FALSE, None, <<>>, "KEY" :> "v")
ServerLoaded == McpServer("", TRUE, None, <<>>, EmptyMap)
SkillReviewProject == Skill("review", FALSE, None)
SkillLoaded == Skill("", TRUE, Some(JArr(<<JNum(1), JObj("k" :> JNull)>>)))

ServerSections ==
    {None, Some(EmptyMap), Some("npx" :> ServerNpx), Some("npx" :> ServerLoaded),
     Some(("npx" :> ServerNpxProject) @@ ("uvx" :> ServerUvx))}
PathSections == {None, Some(<<>>), Some(<<"~/base">>), Some(<<"~/override", "~/work">>)}
SkillSections ==
    {None, Some("review" :> SkillReview), Some("review" :> SkillLoaded),
     Some(("review" :> SkillReviewProject) @@ ("lint" :> SkillLoaded))}
InstructionSections == {None, Some(<<"Be concise">>)}
UnknownSections ==
    {EmptyMap, "futureFeature" :> JObj("x" :> JNum(1)),
     ("futureFeature" :> JStr("off")) @@ ("theme" :> JStr("dark"))}

\* Documents: `unknown` holds no key of a known section (config/mod.rs:47-48).
Documents ==
    {ClaudeConfig(s, a, k, i, u) :
        s \in ServerSections, a \in PathSections, k \in SkillSections,
        i \in InstructionSections, u \in UnknownSections}

\* Documents for the binary functions (a smaller set, squared).
MergeDocuments ==
    {ClaudeConfig(s, a, k, None, u) :
        s \in ServerSections, a \in {None, Some(<<"~/base">>)},
        k \in {None, Some("review" :> SkillReview),
                     Some(("review" :> SkillReviewProject) @@ ("lint" :> SkillLoaded))},
        u \in UnknownSections}

\* Documents that differ in their list sections only.
ListDocuments ==
    {ClaudeConfig(None, a, None, i, EmptyMap) :
        a \in PathSections,
        i \in {None, Some(<<>>), Some(<<"Be concise">>), Some(<<"Reply in French", "Be brief">>)}}

\* The inputs of merge_configs.
MergeInputs == MergeDocuments \cup ListDocuments

\* The documents of one layer of the three-layer fold.
LayerDocuments ==
    {NewConfig,
     ClaudeConfig(Some("npx" :> ServerNpx), Some(<<"~/base">>), None, None,
                  "theme" :> JStr("dark")),
     ClaudeConfig(Some(("npx" :> ServerNpxProject) @@ ("uvx" :> ServerUvx)), Some(<<>>),
                  Some("review" :> SkillReview), Some(<<"Be concise">>), EmptyMap),
     ClaudeConfig(Some("npx" :> ServerLoaded), None,
                  Some(("review" :> SkillReviewProject) @@ ("lint" :> SkillLoaded)),
                  Some(<<>>), ("futureFeature" :> JStr("off")) @@ ("theme" :> JStr("light"))),
     ClaudeConfig(Some(EmptyMap), Some(<<"~/override", "~/work">>), Some("lint" :> SkillLoaded),
                  None, "futureFeature" :> JObj("x" :> JNum(1))),
     ClaudeConfig(None, None, None, Some(<<"Reply in French", "Be brief">>),
                  "theme" :> JStr("dark"))}

\* Documents with nested unknown values and with a key that contains a dot.
DocNested ==
    ClaudeConfig(None, None, Some("review" :> SkillReview), None,
                 "futureFeature" :>
                     JObj(("x" :> JNum(1)) @@
                          ("deep" :> JObj(("k" :> JNull) @@
                                          ("list" :> JArr(<<JNum(1), JObj("k" :> JNull)>>))))))
DocDotted ==
    ClaudeConfig(None, None, None, Some(<<"Be concise">>), "futureFeature.x" :> JNum(2))

\* A project document that adds a server and a new key to the second of
\* LayerDocuments and drops its allowedPaths.
DocProject ==
    ClaudeConfig(Some("uvx" :> ServerUvx), None, None, None,
                 ("theme" :> JStr("dark")) @@ ("futureFeature" :> JObj("x" :> JNum(1))))

\* The documents read_config returns for the global and the project file.
DiffDocuments ==
    {Deserialize(Serialize(d)) : d \in LayerDocuments \cup {DocNested, DocDotted, DocProject}}

\* Documents with each kind of defect the rules look for, alone and combined.
ValidationDocuments ==
    {ClaudeConfig(s, a, k, None, EmptyMap) :
        s \in {None, Some(EmptyMap), Some("npx" :> ServerNpx), Some("" :> ServerNoName),
               Some(("npx" :> ServerNpx) @@ ("" :> ServerNoName))},
        a \in {None, Some(<<>>), Some(<<"~/projects">>), Some(<<"">>),
               Some(<<"~/projects", "a\\0b">>), Some(<<"~/projects", "", "a\\0b">>)},
        k \in {None, Some(EmptyMap), Some("review" :> SkillReview),
               Some(("review" :> SkillReview) @@ ("" :> Skill("", TRUE, None)))}}

InitPure ==
    /\ files = [t \in Paths |-> NoFile]
    /\ backups = {}
    /\ backupDir = FALSE
    /\ clock = 0
    /\ calls = 0
    /\ pc = [p \in Procs |-> "idle"]
    /\ call = [p \in Procs |-> NoCall]
    /\ loaded = [p \in Procs |-> None]
    /\ serialized = TRUE
    /\ eval = NoEval

fsVars == <<files, backups, backupDir, clock, calls, pc, call, loaded, serialized>>

\* serde_json::to_value(d)
EvalSerialize(d) ==
    /\ eval.op = "none"
    /\ eval' = [op |-> "serialize", d |-> d, out |-> Serialize(d)]
    /\ UNCHANGED fsVars

\* serde_json::from_str(&serde_json::to_string_pretty(d))
EvalRoundTrip(d) ==
    /\ eval.op = "none"
    /\ LET b == ToBytes(Serialize(d))
       IN  eval' = [op |-> "roundtrip", d |-> d,
                    out |-> IF WellFormed(b) /\ ConfigShape(ParseBytes(b))
                            THEN Some(Deserialize(ParseBytes(b))) ELSE None]
    /\ UNCHANGED fsVars

\* merge_configs(base, over)
EvalMerge(base, over) ==
    /\ eval.op = "none"
    /\ eval' = [op |-> "merge", base |-> base, over |-> over,
                out |-> merge_configs(base, over)]
    /\ UNCHANGED fsVars

\* merge_configs(&merge_configs(&global, &project), &session)
EvalFold(global, project, session) ==
    /\ eval.op = "none"
    /\ eval' = [op |-> "fold", global |-> global, project |-> project,
                session |-> session, out |-> merge_layers(global, project, session)]
    /\ UNCHANGED fsVars

\* diff_configs and get_merged_config over one pair of files; the project
\* file may be missing.
EvalDiff(global, project) ==
    /\ eval.op = "none"
    /\ eval' = [op |-> "diff", global |-> global, project |-> project,
                out |-> diff_configs(global, project),
                merged |-> get_merged_config(global, project)]
    /\ UNCHANGED fsVars

\* validate_config(d)
EvalValidate(d) ==
    /\ eval.op = "none"
    /\ eval' = [op |-> "validate", d |-> d,
                out |-> IF validate_config(d) = "Ok" THEN Ok
                        ELSE Err("ValidationFailed", validate_config(d))]
    /\ UNCHANGED fsVars

\* A document whose top-level object holds the empty key, and one with an
\* array of objects.
DocEmptyKey ==
    ClaudeConfig(None, None, None, None,
                 ("" :> JObj("npx" :> JStr("server"))) @@ ("npx" :> JStr("KEY")))

DocArray ==
    ClaudeConfig(Some("uvx" :> ServerUvx), None, None, None,
                 "list" :> JArr(<<JNum(1), JObj("k" :> JObj("deep" :> JBool(TRUE))),
                                  JArr(<<JObj("x" :> JNull)>>)>>))

SearchDocuments == {NewConfig, DocBuilt, DocInvalid, DocEmptyKey, DocArray}

Queries == {"", "npx", "server", "Key", "e", "zzz"}

DepthLimits == {None} \cup {Some(k) : k \in 0..MaxDepth}

\* ConfigSearcher::with_options(options).search(query, config, ..)
EvalSearch(options, query, config) ==
    /\ eval.op = "none"
    /\ eval' = [op |-> "search", options |-> options, query |-> query, d |-> config,
                out |-> search(options, query, config, "Global")]
    /\ UNCHANGED fsVars

\* The texts a file gives to a section that must be a map.
SectionTexts ==
    {"npx", "line ", "line 1,", "line 12,", "line 12345,", "line +1234512, column 7,",
     "see line 00000, then column x,", "a, b", "on line"}

\* The errors of serde_json::from_str::<ClaudeConfig> in the model.
ErrorMessages ==
    {SyntaxMessage(code, 1, column) :
        code \in {"key must be a string", "expected value",
                  "EOF while parsing an object"},
        column \in {2, 14}}
      \cup {InvalidTypeMessage(s, 1, 20 + Len(s)) : s \in SectionTexts}

\* read_config(path) on a file that is not a valid document.
EvalReadRejected(error_str) ==
    /\ eval.op = "none"
    /\ eval' = [op |-> "read_rejected", message |-> error_str,
                out |-> read_config_rejected(error_str)]
    /\ UNCHANGED fsVars

NextPure ==
    \/ \E d \in Documents : EvalSerialize(d)
    \/ \E d \in Documents : EvalRoundTrip(d)
    \/ \E base \in MergeInputs, over \in MergeInputs : EvalMerge(base, over)
    \/ \E global \in LayerDocuments, project \in LayerDocuments,
          session \in LayerDocuments : EvalFold(global, project, session)
    \/ \E global \in DiffDocuments, project \in {None} \cup {Some(d) : d \in DiffDocuments} :
          EvalDiff(global, project)
    \/ \E d \in ValidationDocuments : EvalValidate(d)
    \/ \E search_keys \in BOOLEAN, search_values \in BOOLEAN, case_sensitive \in BOOLEAN,
          max_depth \in DepthLimits, query \in Queries, config \in SearchDocuments :
          EvalSearch(SearchOptions(search_keys, search_values, case_sensitive, max_depth),
                     query, config)
    \/ \E error_str \in ErrorMessages : EvalReadRejected(error_str)

SpecPure == InitPure /\ [][NextPure]_vars

SpecSerial == InitSerial /\ [][Next]_vars

(***************************************************************************)
(* The backup store used on its own (backup/mod.rs): one caller creates,   *)
(* lists, prunes and restores backups of several files that share one      *)
(* backup directory, and the files are edited in between.                  *)
(***************************************************************************)
\* A file with its directory.
Src(dir, stem, ext) == [dir |-> dir, stem |-> stem, ext |-> ext]

\* self.backup_dir.parent()
BackupDirParent == "home"

\* The files backups are made of: the global file, a project's file of the
\* same name, and a file whose stem holds an underscore.
SourceFiles ==
    {Src("home", "config", "json"), Src("project", "config", "json"),
     Src("home", "config_local", "json")}

\* The stems of the model that contain an underscore, split at it.
UnderscoredStems == "config_local" :> <<"config", "local">>

Pieces(stem) == IF stem \in DOMAIN UnderscoredStems THEN UnderscoredStems[stem] ELSE <<stem>>

\* The contents a file is given.
Contents == {ToBytes(JObj(EmptyMap)), ToBytes(JObj("a" :> JNum(1)))}

\* Every name create_backup can give a backup.
BackupNames == {BackupName(f, now) : f \in SourceFiles, now \in 0..MaxClock}

InitBackup ==
    /\ files = [f \in SourceFiles |-> File(ToBytes(JObj("a" :> JNum(1))))]
    /\ backups = {}
    /\ backupDir = FALSE
    /\ clock = 0
    /\ calls = 0
    /\ pc = [p \in Procs |-> "idle"]
    /\ call = [p \in Procs |-> NoCall]
    /\ loaded = [p \in Procs |-> None]
    /\ serialized = TRUE
    /\ eval = [op |-> "none", result |-> Pending, out |-> None, origin |-> EmptyMap]

\* The return of a backup store call; origin remembers which file, with
\* which bytes, each backup name was last copied from.
Returns(op, arg, result, out, origin) ==
    /\ calls < MaxStoreOps
    /\ calls' = calls + 1
    /\ eval' = [op |-> op, arg |-> arg, result |-> result, out |-> out, origin |-> origin]

storeVars == <<pc, call, loaded, serialized>>

\* BackupManager::create_backup
CreateBackup(file_path) ==
    /\ \/ /\ ~files[file_path].exists
          /\ Returns("create_backup", file_path, Err("NotFound", "create_backup"), None,
                     eval.origin)
          /\ UNCHANGED <<backups, backupDir, clock>>
       \/ /\ files[file_path].exists
          /\ ~backupDir
          /\ Returns("create_backup", file_path,
                     Err("Filesystem", "create backup directory"), None, eval.origin)
          /\ UNCHANGED <<backups, backupDir, clock>>
       \/ /\ files[file_path].exists
          /\ Returns("create_backup", file_path, Err("Filesystem", "copy file to backup"),
                     None, eval.origin)
          /\ backupDir' = TRUE
          /\ UNCHANGED <<backups, clock>>
       \/ /\ files[file_path].exists
          /\ \E now \in clock..MaxClock :
                /\ clock' = now
                /\ backups' = CopyToBackup(backups, BackupName(file_path, now),
                                           files[file_path].bytes)
                /\ Returns("create_backup", file_path, Ok, Some(BackupName(file_path, now)),
                           (BackupName(file_path, now) :>
                                [file |-> file_path, bytes |-> files[file_path].bytes])
                             @@ eval.origin)
          /\ backupDir' = TRUE
    /\ UNCHANGED <<files, storeVars>>

\* name.starts_with(&format!("{}_", file_stem))
MatchesStem(name, file_stem) == IsPrefix(Pieces(file_stem), Pieces(name.stem))

\* The sequences that hold each element of set S once.
Orderings(S) ==
    {q \in [1..Cardinality(S) -> S] : \A i, j \in 1..Cardinality(S) : i # j => q[i] # q[j]}

\* list_backups: the backups whose name starts with the stem, newest
\* first; backups of one timestamp come in the order read_dir gave them.
list_backups(original_file) ==
    IF ~backupDir THEN {<<>>}
    ELSE {q \in Orderings({NameOf(b) : b \in {c \in backups :
                                                MatchesStem(c, original_file.stem)}}) :
              \A i, j \in 1..Len(q) : i < j => q[i].ts >= q[j].ts}

\* BackupManager::list_backups
ListBackups(original_file) ==
    /\ \/ \E listing \in list_backups(original_file) :
             Returns("list_backups", original_file, Ok, Some(listing), eval.origin)
       \/ /\ backupDir
          /\ Returns("list_backups", original_file,
                     Err("Filesystem", "read backup directory"), None, eval.origin)
    /\ UNCHANGED <<files, backups, backupDir, clock, storeVars>>

\* BackupManager::cleanup_old_backups: removes the listed backups past the
\* retention count one by one and stops at the first removal that fails.
CleanupOldBackups(original_file) ==
    /\ \/ \E listing \in list_backups(original_file) :
             IF Len(listing) <= retention_count
                 THEN /\ Returns("cleanup_old_backups", original_file, Ok, Some(0),
                                 eval.origin)
                      /\ UNCHANGED backups
                 ELSE LET backups_to_remove ==
                              SubSeq(listing, retention_count + 1, Len(listing))
                      IN  \E removed_count \in 0..Len(backups_to_remove) :
                             /\ backups' =
                                   {b \in backups :
                                       \A n \in 1..removed_count :
                                           NameOf(b) # backups_to_remove[n]}
                             /\ IF removed_count = Len(backups_to_remove)
                                    THEN Returns("cleanup_old_backups", original_file, Ok,
                                                 Some(removed_count), eval.origin)
                                    ELSE Returns("cleanup_old_backups", original_file,
                                                 Err("Filesystem", "remove old backup"),
                                                 None, eval.origin)
       \/ /\ backupDir
          /\ Returns("cleanup_old_backups", original_file,
                     Err("Filesystem", "read backup directory"), None, eval.origin)
          /\ UNCHANGED backups
    /\ UNCHANGED <<files, backupDir, clock, storeVars>>

\* stem_with_timestamp.split('_').next()
original_stem(name) == Pieces(name.stem)[1]

\* self.backup_dir.parent().join(format!("{}.{}", original_stem, extension))
original_file_of(name) == Src(BackupDirParent, original_stem(name), name.ext)

\* The outcomes of fs::copy(from, to): a copy of a file onto itself leaves
\* it as it was or truncated, whichever the platform's copy does.
CopyOnto(from, to) ==
    IF from = to THEN {files[from], File(<<>>)} ELSE {files[from]}

\* BackupManager::restore_backup, given the path of a backup or the path
\* <dir>/<stem>.<ext> of any other file.
RestoreBackup(backup_path) ==
    /\ \/ /\ backup_path \in SourceFiles
          /\ ~files[backup_path].exists
          /\ Returns("restore_backup", backup_path, Err("NotFound", "restore_backup"),
                     None, eval.origin)
          /\ UNCHANGED files
       \/ /\ backup_path \in SourceFiles
          /\ files[backup_path].exists
          /\ LET original_file ==
                     Src(BackupDirParent, Pieces(backup_path.stem)[1], backup_path.ext)
             IN  \/ \E copied \in CopyOnto(backup_path, original_file) :
                       /\ files' = [files EXCEPT ![original_file] = copied]
                       /\ Returns("restore_backup", backup_path, Ok, Some(original_file),
                                  eval.origin)
                 \/ /\ Returns("restore_backup", backup_path,
                                Err("Filesystem", "restore backup"), None, eval.origin)
                    /\ UNCHANGED files
       \/ /\ backup_path \notin SourceFiles
          /\ \A b \in backups : NameOf(b) # backup_path
          /\ Returns("restore_backup", backup_path, Err("NotFound", "restore_backup"),
                     None, eval.origin)
          /\ UNCHANGED files
       \/ \E b \in backups :
             /\ backup_path \notin SourceFiles
             /\ NameOf(b) = backup_path
             /\ \/ /\ files' = [files EXCEPT ![original_file_of(backup_path)] =
                                                File(b.bytes)]
                   /\ Returns("restore_backup", backup_path, Ok,
                              Some(original_file_of(backup_path)), eval.origin)
                \/ /\ Returns("restore_backup", backup_path,
                              Err("Filesystem", "restore backup"), None, eval.origin)
                   /\ UNCHANGED files
    /\ UNCHANGED <<backups, backupDir, clock, storeVars>>

\* The user or the tool changes or deletes a file between two calls.
EditFile(file_path, content) ==
    /\ files[file_path] # content
    /\ files' = [files EXCEPT ![file_path] = content]
    /\ Returns("edit", file_path, Ok, None, eval.origin)
    /\ UNCHANGED <<backups, backupDir, clock, storeVars>>

NextBackup ==
    \/ \E f \in SourceFiles : CreateBackup(f)
    \/ \E f \in SourceFiles : ListBackups(f)
    \/ \E f \in SourceFiles : CleanupOldBackups(f)
    \/ \E n \in BackupNames \cup SourceFiles : RestoreBackup(n)
    \/ \E f \in SourceFiles, c \in {NoFile} \cup {File(b) : b \in Contents} : EditFile(f, c)

SpecBackup == InitBackup /\ [][NextBackup]_vars

(***************************************************************************)
(* McpManager (mcp/manager.rs): each operation reads the configuration of  *)
(* its scope, changes the server map and writes the document back with     *)
(* write_config_with_backup.                                               *)
(***************************************************************************)
Whitespace == {" ", "\t"}

\* str::trim
RECURSIVE trim(_)
trim(text) ==
    IF text = "" THEN ""
    ELSE IF SubSeq(text, 1, 1) \in Whitespace THEN trim(SubSeq(text, 2, Len(text)))
    ELSE IF SubSeq(text, Len(text), Len(text)) \in Whitespace
         THEN trim(SubSeq(text, 1, Len(text) - 1))
    ELSE text

\* add_server: servers.insert(name, server) with server.name = name.
add_server(config, name, server) ==
    [config EXCEPT !.mcp_servers =
        Some((name :> [server EXCEPT !.name = name])
                @@ (IF config.mcp_servers.some THEN config.mcp_servers.val ELSE EmptyMap))]

\* set_server_enabled: server.enabled = enabled.
set_server_enabled(config, name, enabled) ==
    [config EXCEPT !.mcp_servers = Some([@.val EXCEPT ![name].enabled = enabled])]

\* A removal that clears the whole server map.
remove_server_all(config, name) == [config EXCEPT !.mcp_servers = None]

\* remove_server: servers.remove(name), and None for a map left empty.
remove_server(config, name) ==
    LET servers == Restrict(config.mcp_servers.val, (DOMAIN config.mcp_servers.val) \ {name})
    IN  [config EXCEPT !.mcp_servers = IF DOMAIN servers = {} THEN None ELSE Some(servers)]

HasServer(config, name) ==
    config.mcp_servers.some /\ name \in DOMAIN config.mcp_servers.val

\* Whether the operation returns its error for the document it read.
Refuses(op, config, name) ==
    IF op = "add_server" THEN HasServer(config, name) ELSE ~HasServer(config, name)

\* The document the operation writes back.
Changed(op, config, name, arg) ==
    CASE op = "add_server" -> add_server(config, name, arg)
      [] op = "set_server_enabled" -> set_server_enabled(config, name, arg)
      [] op = "remove_server" -> remove_server(config, name)

\* One McpManager call: read_config_for_scope, the check of the server
\* map, then the write.
McpCall(p, path, op, name, arg) ==
    /\ MayCall(p)
    /\ LET c == [NoCall EXCEPT !.op = op, !.path = path, !.pre = files[path],
                               !.mcp = [op |-> op, name |-> name, arg |-> arg]]
           b == files[path].bytes
       IN  \/ /\ files[path].exists
              /\ calls' = calls + 1
              /\ Finish(p, c, Err("Filesystem", "read config file"))
              /\ UNCHANGED <<files, backups, backupDir, clock, serialized, eval>>
           \/ /\ files[path].exists
              /\ ~(WellFormed(b) /\ ConfigShape(ParseBytes(b)))
              /\ calls' = calls + 1
              /\ Finish(p, c, Err("InvalidJson", "read_config"))
              /\ UNCHANGED <<files, backups, backupDir, clock, serialized, eval>>
           \/ /\ files[path].exists => WellFormed(b) /\ ConfigShape(ParseBytes(b))
              /\ LET config == IF files[path].exists THEN Deserialize(ParseBytes(b))
                               ELSE NewConfig
                 IN  IF Refuses(op, config, name)
                         THEN /\ calls' = calls + 1
                              /\ Finish(p, c, Err("Generic", op))
                              /\ UNCHANGED <<files, backups, backupDir, clock, serialized,
                                             eval>>
                         ELSE StartWriteAs(p, c, path, Changed(op, config, name, arg),
                                           "loaded",
                                           IF files[path].exists THEN ParseBytes(b)
                                           ELSE JNull)
    /\ UNCHANGED loaded

\* McpManager::add_server
AddServer(p, path, raw_name, server) ==
    LET name == trim(raw_name)
    IN  IF name = ""
        THEN /\ MayCall(p)
             /\ calls' = calls + 1
             /\ Finish(p, [NoCall EXCEPT !.op = "add_server", !.path = path,
                                         !.pre = files[path],
                                         !.mcp = [op |-> "add_server", name |-> name,
                                                  arg |-> server]],
                       Err("ValidationFailed", "Server name cannot be empty"))
             /\ UNCHANGED <<files, backups, backupDir, clock, loaded, serialized, eval>>
        ELSE McpCall(p, path, "add_server", name, server)

\* McpManager::enable_server and disable_server (set_server_enabled)
SetServerEnabled(p, path, name, enabled) ==
    McpCall(p, path, "set_server_enabled", name, enabled)

\* McpManager::remove_server
RemoveServer(p, path, name) ==
    McpCall(p, path, "remove_server", name, None)

DocTwoServers ==
    ClaudeConfig(Some(("npx" :> ServerNpx) @@ ("uvx" :> ServerUvx)), None,
                 Some("review" :> SkillReview), Some(<<"modified">>),
                 "theme" :> JStr("preserved value"))

\* The configuration file of the scope before the first call: missing,
\* hand-written, or written by the tool.
McpInitialJsons ==
    InitialJsons \cup {Serialize(d) : d \in {NewConfig, DocBuilt, DocTwoServers, DocInvalid}}

ServerNames == {"npx", "uvx", " uvx ", " "}

InitMcp ==
    /\ files \in [Paths -> {NoFile} \cup {File(ToBytes(j)) : j \in McpInitialJsons}]
    /\ \A t \in Paths \ {Path("config", "json")} : files[t] = NoFile
    /\ backups = {}
    /\ backupDir = FALSE
    /\ clock = 0
    /\ calls = 0
    /\ pc = [p \in Procs |-> "idle"]
    /\ call = [p \in Procs |-> NoCall]
    /\ loaded = [p \in Procs |-> None]
    /\ serialized = TRUE
    /\ eval = NoEval

NextMcp ==
    \/ \E raw_name \in ServerNames, server \in {ServerNpx, ServerUvx} :
          AddServer(1, Path("config", "json"), raw_name, server)
    \/ \E name \in ServerNames, enabled \in BOOLEAN :
          SetServerEnabled(1, Path("config", "json"), name, enabled)
    \/ \E name \in ServerNames : RemoveServer(1, Path("config", "json"), name)
    \/ WExists(1)
    \/ WBackup(1)
    \/ WValidate(1)
    \/ AwCreate(1)
    \/ AwWrite(1)
    \/ AwRename(1)
    \/ Return(1)

SpecMcp == InitMcp /\ [][NextMcp]_vars

(***************************************************************************)
(* A run of writes: one caller writes one path, which does not exist at    *)
(* the start, again and again, and no call is interrupted.                 *)
(***************************************************************************)
InitWrites ==
    /\ files = [t \in Paths |-> NoFile]
    /\ backups = {}
    /\ backupDir = FALSE
    /\ clock = 0
    /\ calls = MaxCalls - MaxWrites
    /\ pc = [p \in Procs |-> "idle"]
    /\ call = [p \in Procs |-> NoCall]
    /\ loaded = [p \in Procs |-> None]
    /\ serialized = TRUE
    /\ eval = NoEval

NextWrites ==
    \/ \E config \in Docs : BeginWrite(1, Path("config", "json"), config)
    \/ WExists(1)
    \/ WBackup(1)
    \/ WValidate(1)
    \/ AwCreate(1)
    \/ AwWrite(1)
    \/ AwRename(1)
    \/ Return(1)

SpecWrites == InitWrites /\ [][NextWrites]_vars

(***************************************************************************)
(* Properties of the write path.                                           *)
(***************************************************************************)
ConfigJson == Path("config", "json")
StateTmp == Path("state", "tmp")

IsWrite(p) == call[p].op = "write"
Returned(p) == pc[p] = "done"
TargetOf(p) == files[call[p].path]
TempOf(p) == files[temp_path(call[p].path)]
WrittenBytes(p) == ToBytes(Serialize(call[p].config))

\* C1: during write_config_with_backup(path, d), until the rename completes the
\* file at path is absent or holds the bytes it held before the call, and
\* after a successful return it holds the complete serialization of d.
C1_TargetOldUntilRename ==
    \A p \in Procs :
        IsWrite(p) =>
            /\ pc[p] \in InCall =>
                  TargetOf(p) = NoFile \/ TargetOf(p) = call[p].pre
            /\ (Returned(p) /\ call[p].result = Ok) =>
                  TargetOf(p) = File(WrittenBytes(p))

\* C2: whenever a step of write_config_with_backup changes the content of a
\* target that existed when the call began, the backup directory already
\* holds a backup of that target whose bytes are the pre-call content.
C2_BackupBeforeReplace ==
    [][\A p \in Procs :
          (IsWrite(p) /\ call[p].pre.exists
                /\ files'[call[p].path] # files[call[p].path])
            => \E b \in backups :
                  /\ b.stem = call[p].path.stem
                  /\ b.ext = call[p].path.ext
                  /\ b.bytes = call[p].pre.bytes]_vars

\* C2 witness: a call has replaced the content of a target that existed.
C2_Witness ==
    \E p \in Procs :
        /\ IsWrite(p) /\ Returned(p) /\ call[p].result = Ok
        /\ call[p].pre.exists
        /\ TargetOf(p) = File(WrittenBytes(p))
        /\ TargetOf(p) # call[p].pre
        /\ \E b \in backups : b.bytes = call[p].pre.bytes

BackupOperations == {"create_backup", "create backup directory", "copy file to backup"}

\* C3: when backup creation fails, the call returns the BackupFailed error,
\* has written no temp file and has left the target unchanged.
C3_BackupFailedError ==
    \A p \in Procs :
        (IsWrite(p) /\ Returned(p) /\ ~call[p].result.ok
              /\ call[p].result.operation \in BackupOperations)
          => /\ call[p].result.kind = "BackupFailed"
             /\ TargetOf(p) = call[p].pre
             /\ TempOf(p) = call[p].preTemp

\* C4: write_config_with_backup of a document that fails validation onto an
\* existing file fails, leaves the file byte-identical to its content before
\* the call and creates no temp file; the error is ValidationFailed whenever
\* the backup step, which runs before validation, met no I/O failure.
C4_InvalidLeavesFile ==
    \A p \in Procs :
        (IsWrite(p) /\ Returned(p) /\ call[p].config = DocInvalid /\ call[p].pre.exists)
          => /\ ~call[p].result.ok
             /\ TargetOf(p) = call[p].pre
             /\ TempOf(p) = call[p].preTemp
             /\ call[p].result.operation \notin BackupOperations
                   => call[p].result.kind = "ValidationFailed"

\* C4 witness: an invalid document was refused on an existing file.
C4_Witness ==
    \E p \in Procs :
        /\ IsWrite(p) /\ Returned(p) /\ call[p].config = DocInvalid
        /\ call[p].pre.exists
        /\ ~call[p].result.ok /\ call[p].result.kind = "ValidationFailed"

\* C5: when the rename fails, the temp file is gone, the call returns a
\* filesystem error and the target holds what it held before the call.
C5_RenameFailureLeavesTarget ==
    \A p \in Procs :
        (IsWrite(p) /\ Returned(p) /\ ~call[p].result.ok
              /\ call[p].result.operation = "atomic rename (temp to config)")
          => /\ call[p].result.kind = "Filesystem"
             /\ ~TempOf(p).exists
             /\ TargetOf(p) = call[p].pre

\* C6: with two interleaved writers of config.json, the file holds at every
\* moment a complete document, and once both have returned, one of them
\* successfully, it holds the complete document of one of the two.
C6_InterleavedWritersComplete ==
    /\ files[ConfigJson].exists => WellFormed(files[ConfigJson].bytes)
    /\ (/\ \A p \in Procs : IsWrite(p) /\ Returned(p) /\ call[p].path = ConfigJson
        /\ \E p \in Procs : call[p].result = Ok)
          => \E p \in Procs : files[ConfigJson] = File(WrittenBytes(p))

(***************************************************************************)
(* Properties of the document model and of the merger.                     *)
(***************************************************************************)
\* C7: deserialize(serialize(d)) = d for every document d.
C7_RoundTrip ==
    eval.op = "roundtrip" => eval.out = Some(eval.d)

\* C8: after read_config, a change of known sections only and a successful
\* write_config_with_backup, every unknown top-level key of the file that was
\* read is in the written file with an equal value.
C8_UnknownKeysPreserved ==
    \A p \in Procs :
        (IsWrite(p) /\ Returned(p) /\ call[p].origin = "loaded" /\ call[p].result = Ok)
          => /\ TargetOf(p).exists
             /\ WellFormed(TargetOf(p).bytes)
             /\ LET written == ParseBytes(TargetOf(p).bytes).o
                    original == call[p].orig.o
                IN  \A k \in (DOMAIN original) \ KnownKeys :
                       k \in DOMAIN written /\ written[k] = original[k]

\* C8 witness: a document with unknown keys was read, changed in a known
\* section and written back.
C8_Witness ==
    \E p \in Procs :
        /\ IsWrite(p) /\ Returned(p) /\ call[p].origin = "loaded"
        /\ call[p].result = Ok
        /\ (DOMAIN call[p].orig.o) \ KnownKeys # {}
        /\ call[p].config # Deserialize(call[p].orig)
        /\ TargetOf(p) # call[p].pre

\* C9: no server entry of a serialized document has a `name` field.
C9_NoNameField ==
    eval.op = "serialize" =>
        ("mcpServers" \in DOMAIN eval.out.o =>
            \A n \in DOMAIN eval.out.o["mcpServers"].o :
                "name" \notin DOMAIN eval.out.o["mcpServers"].o[n].o)

OptMap(section) == IF section.some THEN section.val ELSE EmptyMap

\* m has the keys of both maps, over's entry where over has the key and
\* base's entry elsewhere.
KeyUnion(base, over, m) ==
    /\ DOMAIN m = (DOMAIN base) \cup (DOMAIN over)
    /\ \A k \in DOMAIN over : m[k] = over[k]
    /\ \A k \in (DOMAIN base) \ (DOMAIN over) : m[k] = base[k]

\* C10: merge_configs(base, override) has, in mcpServers, skills and unknown,
\* the union of the keys; a key of override maps to override's whole entry
\* and a key of base alone to base's entry.
C10_MergeKeyUnion ==
    eval.op = "merge" =>
        /\ KeyUnion(OptMap(eval.base.mcp_servers), OptMap(eval.over.mcp_servers),
                    OptMap(eval.out.mcp_servers))
        /\ KeyUnion(OptMap(eval.base.skills), OptMap(eval.over.skills),
                    OptMap(eval.out.skills))
        /\ KeyUnion(eval.base.unknown, eval.over.unknown, eval.out.unknown)

\* C10 witness: both inputs hold server `npx` with different entries, only
\* override holds `uvx`, and only base holds the unknown key `theme`.
C10_Witness ==
    /\ eval.op = "merge"
    /\ eval.base.mcp_servers = Some("npx" :> ServerNpx)
    /\ eval.over.mcp_servers = Some(("npx" :> ServerNpxProject) @@ ("uvx" :> ServerUvx))
    /\ eval.out.mcp_servers.val["npx"] = ServerNpxProject
    /\ "theme" \in DOMAIN eval.base.unknown
    /\ "theme" \notin DOMAIN eval.over.unknown
    /\ eval.out.unknown["theme"] = JStr("dark")

\* C11: merge_configs takes allowedPaths and customInstructions wholly from
\* override whenever override has the section, an empty list included, and
\* keeps base's list only when override lacks the section.
C11_ListsReplaced ==
    eval.op = "merge" =>
        /\ eval.out.allowed_paths =
              IF eval.over.allowed_paths.some
                  THEN eval.over.allowed_paths ELSE eval.base.allowed_paths
        /\ eval.out.custom_instructions =
              IF eval.over.custom_instructions.some
                  THEN eval.over.custom_instructions ELSE eval.base.custom_instructions

\* C11 witness: override's explicit empty allowedPaths cleared base's list,
\* and base's customInstructions were kept because override has none.
C11_Witness ==
    /\ eval.op = "merge"
    /\ eval.base.allowed_paths = Some(<<"~/base">>)
    /\ eval.over.allowed_paths = Some(<<>>)
    /\ eval.out.allowed_paths = Some(<<>>)
    /\ eval.base.custom_instructions = Some(<<"Be concise">>)
    /\ eval.over.custom_instructions = None
    /\ eval.out.custom_instructions = Some(<<"Be concise">>)

\* The layers of a fold, highest priority first.
FoldLayers == <<eval.session, eval.project, eval.global>>

\* The list section of the highest-priority layer that has it.
TopList(section) ==
    IF \E n \in 1..3 : FoldLayers[n][section].some
        THEN LET n == CHOOSE n \in 1..3 :
                        /\ FoldLayers[n][section].some
                        /\ \A m \in 1..(n - 1) : ~FoldLayers[m][section].some
             IN  FoldLayers[n][section]
        ELSE None

\* m maps each key of some layer to the entry of the highest-priority layer
\* holding the key; layerMaps are the layers' maps, highest priority first.
TopEntries(layerMaps, m) ==
    /\ DOMAIN m = UNION {DOMAIN layerMaps[n] : n \in 1..3}
    /\ \A k \in DOMAIN m :
          \E n \in 1..3 :
              /\ k \in DOMAIN layerMaps[n]
              /\ \A j \in 1..(n - 1) : k \notin DOMAIN layerMaps[j]
              /\ m[k] = layerMaps[n][k]

\* C12: in merge(merge(global, project), session) each list section is that
\* of the highest-priority layer that has it, and each key of mcpServers,
\* skills and unknown maps to the entry of the highest-priority layer that
\* contains the key.
C12_FoldHighestPriority ==
    eval.op = "fold" =>
        /\ eval.out.allowed_paths = TopList("allowed_paths")
        /\ eval.out.custom_instructions = TopList("custom_instructions")
        /\ TopEntries([n \in 1..3 |-> OptMap(FoldLayers[n].mcp_servers)],
                      OptMap(eval.out.mcp_servers))
        /\ TopEntries([n \in 1..3 |-> OptMap(FoldLayers[n].skills)],
                      OptMap(eval.out.skills))
        /\ TopEntries([n \in 1..3 |-> FoldLayers[n].unknown], eval.out.unknown)

\* C12 witness: three different layers; server npx is in all three and the
\* session's entry wins, allowedPaths come from the project because the
\* session has none, and the key theme comes from the global layer.
C12_Witness ==
    /\ eval.op = "fold"
    /\ eval.global.mcp_servers = Some("npx" :> ServerNpx)
    /\ eval.project.mcp_servers = Some(("npx" :> ServerNpxProject) @@ ("uvx" :> ServerUvx))
    /\ eval.session.mcp_servers = Some("npx" :> ServerLoaded)
    /\ eval.out.mcp_servers.val["npx"] = ServerLoaded
    /\ eval.out.mcp_servers.val["uvx"] = ServerUvx
    /\ eval.out.allowed_paths = Some(<<>>)
    /\ eval.out.unknown["theme"] = JStr("light")

(***************************************************************************)
(* Properties of the differ.                                               *)
(***************************************************************************)
DiffSet == {eval.out.diffs[n] : n \in 1..Len(eval.out.diffs)}
EntriesAt(key_path) == {e \in DiffSet : e.key_path = key_path}
GlobalJson == Serialize(eval.global)
ProjectJson == Serialize(eval.project.val)

\* What the contract of the differ gives for top-level key k.
KeyReport(k) ==
    LET g == GlobalJson.o
        pj == ProjectJson.o
        path == Split(k)
    IN  IF k \notin DOMAIN pj
            THEN /\ EntriesAt(path) = {Removed(path, g[k])}
                 /\ eval.out.sources[path] = "Global"
        ELSE IF k \notin DOMAIN g
            THEN /\ Added(path, pj[k]) \in EntriesAt(path)
                 /\ \A e \in EntriesAt(path) : e.kind = "Added"
                 /\ eval.out.sources[path] = "Project"
        ELSE IF g[k] # pj[k]
            THEN /\ EntriesAt(path) = {Modified(path, g[k], pj[k])}
                 /\ eval.out.sources[path] = "Project"
        ELSE /\ EntriesAt(path) = {}
             /\ eval.out.sources[path] = "Global"

PlainTopLevelKeys ==
    \A k \in (DOMAIN GlobalJson.o) \cup (DOMAIN ProjectJson.o) : Split(k) = <<k>>

RECURSIVE Beneath(_, _)
Beneath(j, path) ==
    IF j.t = "obj"
        THEN UNION {{Added(KeyPath(path, k), j.o[k])} \cup Beneath(j.o[k], KeyPath(path, k)) :
                        k \in DOMAIN j.o}
        ELSE {}

\* C14: for a key only in the project document whose value is an object, the
\* diff holds an Added entry for every nested member down to the leaves, and
\* no Added entry beneath the key other than those: an array is one value.
C14_AddedNestedLeaves ==
    (eval.op = "diff" /\ eval.project.some) =>
        \A k \in (DOMAIN ProjectJson.o) \ (DOMAIN GlobalJson.o) :
            ProjectJson.o[k].t = "obj" =>
                /\ Beneath(ProjectJson.o[k], Split(k)) \subseteq DiffSet
                /\ \A e \in DiffSet :
                      (e.kind = "Added" /\ IsPrefix(Split(k), e.key_path))
                        => e \in {Added(Split(k), ProjectJson.o[k])}
                                    \cup Beneath(ProjectJson.o[k], Split(k))

\* C14 witness: futureFeature is only in the project document and holds an
\* object two levels deep with an array in it; the array is one Added entry.
C14_Witness ==
    /\ eval.op = "diff" /\ eval.project.some
    /\ "futureFeature" \notin DOMAIN GlobalJson.o
    /\ Added(<<"futureFeature", "deep", "k">>, JNull) \in DiffSet
    /\ Added(<<"futureFeature", "deep", "list">>, JArr(<<JNum(1), JObj("k" :> JNull)>>))
            \in DiffSet

\* The values a dotted path names in document j.
RECURSIVE ValuesAt(_, _)
ValuesAt(j, path) ==
    IF path = <<>> THEN {j}
    ELSE IF j.t # "obj" THEN {}
    ELSE UNION {ValuesAt(j.o[k], SubSeq(path, Len(Split(k)) + 1, Len(path))) :
                    k \in {k \in DOMAIN j.o : IsPrefix(Split(k), path)}}

\* The empty path names the whole document.
At(j, path) == IF path = EmptyPath THEN {j} ELSE ValuesAt(j, path)

\* C15: for every path of the source map, the value at the path in the
\* merged document equals the value at the path in the attributed layer.
C15_SourceMatchesMerge ==
    eval.op = "diff" =>
        \A path \in DOMAIN eval.out.sources :
            LET layer == IF eval.out.sources[path] = "Global"
                             THEN GlobalJson ELSE SerializeOption(eval.project)
            IN  /\ At(layer, path) # {}
                /\ At(Serialize(eval.merged), path) = At(layer, path)

(***************************************************************************)
(* Properties of the validator.                                            *)
(***************************************************************************)
ServerKeysValid(d) == d.mcp_servers.some => \A n \in DOMAIN d.mcp_servers.val : n # ""
PathsValid(d) ==
    d.allowed_paths.some =>
        \A i \in 1..Len(d.allowed_paths.val) :
            d.allowed_paths.val[i] # "" /\ d.allowed_paths.val[i] \notin NulPaths
SkillKeysValid(d) == d.skills.some => \A n \in DOMAIN d.skills.val : n # ""

\* C16: validate_config(d) succeeds exactly when every server key and skill
\* key is non-empty and every allowedPaths entry is non-empty and NUL-free;
\* otherwise it returns the ValidationFailed of the first failing rule in
\* the order server names, path entries, skill names.
C16_FirstFailingRule ==
    eval.op = "validate" =>
        /\ eval.out = Ok <=>
              ServerKeysValid(eval.d) /\ PathsValid(eval.d) /\ SkillKeysValid(eval.d)
        /\ eval.out # Ok =>
              /\ eval.out.kind = "ValidationFailed"
              /\ eval.out.operation =
                    IF ~ServerKeysValid(eval.d) THEN "McpServersRule"
                    ELSE IF ~PathsValid(eval.d) THEN "AllowedPathsRule"
                    ELSE "SkillsRule"

\* C16 witness: a document with a bad path and an empty skill name, whose
\* servers are valid, is refused by the paths rule.
C16_Witness ==
    /\ eval.op = "validate"
    /\ ServerKeysValid(eval.d) /\ eval.d.mcp_servers.some
    /\ ~PathsValid(eval.d) /\ ~SkillKeysValid(eval.d)
    /\ eval.out = Err("ValidationFailed", "AllowedPathsRule")

(***************************************************************************)
(* Properties of the backup store.                                         *)
(***************************************************************************)
\* The step is a call of operation op.
StoreCall(op) == calls' = calls + 1 /\ eval'.op = op

\* C17: create_backup(f) leaves every file as it was; when f exists and the
\* call succeeds, the backup directory holds a file named
\* <stem>_<timestamp>.<ext> with f's bytes, and that name is returned; when
\* f does not exist the call fails with NotFound and the backups are as
\* they were.
C17_CreateBackupCopies ==
    [][StoreCall("create_backup") =>
          LET f == eval'.arg
          IN  /\ files' = files
              /\ (files[f].exists /\ eval'.result = Ok) =>
                    \E now \in 0..MaxClock :
                        /\ eval'.out = Some([stem |-> f.stem, ts |-> now, ext |-> f.ext])
                        /\ [stem |-> f.stem, ts |-> now, ext |-> f.ext,
                            bytes |-> files[f].bytes] \in backups'
              /\ ~files[f].exists =>
                    /\ ~eval'.result.ok /\ eval'.result.kind = "NotFound"
                    /\ backups' = backups]_vars

\* C17 witness: a create_backup of an existing file has returned the name of
\* a backup that holds the file's bytes.
C17_Witness ==
    /\ eval.op = "create_backup" /\ eval.result = Ok
    /\ files[eval.arg].exists
    /\ \E b \in backups : NameOf(b) = eval.out.val /\ b.bytes = files[eval.arg].bytes

\* C18: no call but cleanup changes or removes an existing backup, and every
\* successful create_backup adds one backup to those that exist.
C18_BackupsImmutable ==
    [][/\ eval'.op # "cleanup_old_backups" => backups \subseteq backups'
       /\ (StoreCall("create_backup") /\ eval'.result = Ok) =>
             Cardinality(backups') = Cardinality(backups) + 1]_vars

\* C19: every backup list_backups(f) returns was created from f.
C19_ListOnlyOwnBackups ==
    (eval.op = "list_backups" /\ eval.result = Ok) =>
        \A n \in 1..Len(eval.out.val) : eval.origin[eval.out.val[n]].file = eval.arg

\* C20: restore_backup(b) of a backup made from f returns f's path and
\* leaves f with the bytes it had when b was made.
C20_RestoreRoundTrip ==
    (eval.op = "restore_backup" /\ eval.result = Ok /\ eval.arg \in DOMAIN eval.origin) =>
        LET made == eval.origin[eval.arg]
        IN  /\ eval.out = Some(made.file)
            /\ files[made.file] = File(made.bytes)

\* C21: restore_backup on an existing file whose name holds no timestamp
\* fails with InvalidBackupName and leaves every file and backup as it was.
C21_RestoreRejectsBadName ==
    [][(StoreCall("restore_backup") /\ eval'.arg \in SourceFiles
            /\ files[eval'.arg].exists) =>
          /\ ~eval'.result.ok /\ eval'.result.kind = "InvalidBackupName"
          /\ files' = files /\ backups' = backups]_vars

\* The backups that were made of file f.
BackupsOf(f) == {b \in backups : eval.origin[NameOf(b)].file = f}

\* C22: a successful cleanup_old_backups(f) with N backups of f and
\* retention count K removes exactly N - K of them, every one older than
\* each of the K it keeps, and returns N - K; when N <= K it removes
\* nothing and returns 0.
C22_CleanupKeepsNewest ==
    [][(StoreCall("cleanup_old_backups") /\ eval'.result = Ok) =>
          LET own == BackupsOf(eval'.arg)
              N == Cardinality(own)
          IN  IF N > retention_count
                  THEN /\ eval'.out = Some(N - retention_count)
                       /\ backups' \subseteq backups
                       /\ Cardinality(backups \ backups') = N - retention_count
                       /\ Cardinality(own \cap backups') = retention_count
                       /\ \A k \in own \cap backups', r \in own \ backups' : k.ts > r.ts
                  ELSE /\ eval'.out = Some(0)
                       /\ backups' = backups]_vars

\* C23: in a run of writes to a path that did not exist, every backup
\* that exists before a step of a write exists with the same bytes after
\* it, so that each write that finds the file adds one backup and n
\* successful writes leave n - 1.
C23_WritesKeepBackups ==
    [][\A b \in backups : b \in backups']_vars

(***************************************************************************)
(* Properties of the search engine.                                        *)
(***************************************************************************)
\* A step from the root of a document: into the member of an object with
\* a key, or into the element of an array with an index.
Member(key) == [step |-> "key", key |-> key]
Element(index) == [step |-> "index", index |-> index]

\* The ways from the root to every object key of a JSON value, each the
\* sequence of steps that ends with the key.
RECURSIVE KeyWays(_)
KeyWays(value) ==
    CASE value.t = "obj" ->
            UNION {{<<Member(k)>>} \cup {<<Member(k)>> \o w : w \in KeyWays(value.o[k])} :
                      k \in DOMAIN value.o}
      [] value.t = "arr" ->
            UNION {{<<Element(n - 1)>> \o w : w \in KeyWays(value.a[n])} :
                      n \in DOMAIN value.a}
      [] OTHER -> {}

\* The dot/bracket path of a way: keys joined with dots, indexes in brackets.
RECURSIVE DotJoin(_)
DotJoin(way) ==
    IF Len(way) = 1 THEN way[1].key
    ELSE LET last == way[Len(way)]
             front == DotJoin(SubSeq(way, 1, Len(way) - 1))
         IN  IF last.step = "key" THEN front \o "." \o last.key
             ELSE front \o "[" \o ToString(last.index) \o "]"

\* The key a way ends with.
KeyOf(way) == way[Len(way)].key

\* How many results carry the path.
ResultsAt(results, key_path) ==
    Cardinality({n \in DOMAIN results : results[n].key_path = key_path})

\* The results are one per way, each carrying the dot-joined path of its way.
OnePerWay(results, ways) ==
    /\ Len(results) = Cardinality(ways)
    /\ \A w \in ways :
          ResultsAt(results, DotJoin(w)) = Cardinality({v \in ways : DotJoin(v) = DotJoin(w)})

\* The keys of the searched document that contain the query, case folded.
MatchingWays ==
    {w \in KeyWays(Serialize(eval.d)) :
        contains(to_lowercase(KeyOf(w)), to_lowercase(eval.query))}

\* C24: a search with the default options returns one result for
\* each key, at any depth, that contains the query case-insensitively,
\* with the dot-joined path to the key, and nothing else.
C24_SearchFindsKeys ==
    (eval.op = "search" /\ eval.options = DefaultOptions) =>
        OnePerWay(eval.out, MatchingWays)

\* The ways from the root to every string, number and boolean of a value.
RECURSIVE LeafWays(_)
LeafWays(value) ==
    CASE value.t = "obj" ->
            UNION {{<<Member(k)>> \o w : w \in LeafWays(value.o[k])} : k \in DOMAIN value.o}
      [] value.t = "arr" ->
            UNION {{<<Element(n - 1)>> \o w : w \in LeafWays(value.a[n])} :
                      n \in DOMAIN value.a}
      [] value.t \in {"str", "num", "bool"} -> {<<>>}
      [] OTHER -> {}

\* The value a way leads to.
RECURSIVE ValueAt(_, _)
ValueAt(value, way) ==
    IF way = <<>> THEN value
    ELSE ValueAt(IF way[1].step = "key" THEN value.o[way[1].key]
                 ELSE value.a[way[1].index + 1],
                 Tail(way))

\* The text a string, number or boolean is matched as.
LeafText(value) ==
    CASE value.t = "str" -> value.s
      [] value.t = "num" -> ToString(value.n)
      [] value.t = "bool" -> IF value.b THEN "true" ELSE "false"

\* The matching keys that belong to an object at depth k or less (the root
\* at depth 0), and the matching values at depth k or less.
KeysWithin(k) ==
    {w \in KeyWays(Serialize(eval.d)) :
        Len(w) - 1 <= k /\ matches(eval.options, eval.query, KeyOf(w))}

LeavesWithin(k) ==
    {w \in LeafWays(Serialize(eval.d)) :
        Len(w) <= k
          /\ matches(eval.options, eval.query, LeafText(ValueAt(Serialize(eval.d), w)))}

\* C25: with maxDepth = k the search reports the matches of every node at
\* depth k or less, those at depth exactly k included, and none of a node
\* at a greater depth.
C25_DepthLimitInclusive ==
    (eval.op = "search" /\ eval.options.max_depth.some) =>
        LET k == eval.options.max_depth.val
        IN  /\ Len(eval.out) =
                  (IF eval.options.search_keys THEN Cardinality(KeysWithin(k)) ELSE 0)
                    + (IF eval.options.search_values THEN Cardinality(LeavesWithin(k)) ELSE 0)
            /\ (eval.options.search_keys /\ ~eval.options.search_values
                   /\ "" \notin DOMAIN Serialize(eval.d).o) =>
                  OnePerWay(eval.out, KeysWithin(k))

\* C25 witness: with maxDepth = 1 a key of an object at depth 1 is reported
\* and a matching key of an object at depth 2 is not.
C25_Witness ==
    /\ eval.op = "search" /\ eval.options = SearchOptions(TRUE, FALSE, FALSE, Some(1))
    /\ eval.d = DocBuilt /\ eval.query = "e"
    /\ ResultsAt(eval.out, "skills.review") = 1
    /\ ResultsAt(eval.out, "mcpServers.npx.name") = 0
    /\ <<Member("mcpServers"), Member("npx"), Member("name")>> \in MatchingWays

(***************************************************************************)
(* Properties of read_config.                                              *)
(***************************************************************************)
\* C26: read_config on a file that is not a valid document returns the
\* invalid-format error and does not panic.
C26_RejectedWithoutPanic ==
    eval.op = "read_rejected" => eval.out.kind = "InvalidJson"

(***************************************************************************)
(* Properties of the MCP server manager.                                   *)
(***************************************************************************)
\* The document read_config gives for a file, ClaudeConfig::new() for none.
ReadBack(file) ==
    IF file.exists THEN Deserialize(ParseBytes(file.bytes)) ELSE NewConfig

\* C27: a successful add_server, remove_server, enable_server or
\* disable_server adds, removes or sets the enabled flag of the named
\* server and leaves every other server and every other section, as
\* read_config reads them, as they were; a failing call leaves the file as
\* it was.
C27_OnlyNamedServerChanges ==
    \A p \in Procs :
        (pc[p] = "done" /\ call[p].mcp.op # "none") =>
            LET m == call[p].mcp
                before == ReadBack(call[p].pre)
                after == ReadBack(files[call[p].path])
                was == OptMap(before.mcp_servers)
                is == OptMap(after.mcp_servers)
            IN  IF call[p].result = Ok
                THEN /\ \A n \in ((DOMAIN was) \cup (DOMAIN is)) \ {m.name} :
                           n \in DOMAIN was /\ n \in DOMAIN is /\ is[n] = was[n]
                     /\ after.allowed_paths = before.allowed_paths
                     /\ after.skills = before.skills
                     /\ after.custom_instructions = before.custom_instructions
                     /\ after.unknown = before.unknown
                     /\ m.op = "add_server" =>
                           /\ m.name \notin DOMAIN was /\ m.name \in DOMAIN is
                           /\ is[m.name] = [m.arg EXCEPT !.name = ""]
                     /\ m.op = "remove_server" =>
                           m.name \in DOMAIN was /\ m.name \notin DOMAIN is
                     /\ m.op = "set_server_enabled" =>
                           /\ m.name \in DOMAIN was /\ m.name \in DOMAIN is
                           /\ is[m.name] = [was[m.name] EXCEPT !.enabled = m.arg]
                ELSE files[call[p].path] = call[p].pre

\* C27 witness: one of two servers has been removed from a document that
\* holds skills, instructions and an unknown key.
C27_Witness ==
    /\ pc[1] = "done" /\ call[1].result = Ok
    /\ call[1].mcp.op = "remove_server" /\ call[1].mcp.name = "npx"
    /\ ReadBack(call[1].pre) = Deserialize(Serialize(DocTwoServers))
    /\ DOMAIN ReadBack(files[call[1].path]).mcp_servers.val = {"uvx"}

(***************************************************************************)
(* Properties of atomic_write.                                             *)
(***************************************************************************)
\* C28: the temp file of a write is not the target, and the rename is the
\* only step of write_config_with_backup that changes the target.
C28_OnlyRenameChangesTarget ==
    [][\A p \in Procs :
          (IsWrite(p) /\ pc[p] \in InCall) =>
              /\ temp_path(call[p].path) # call[p].path
              /\ files'[call[p].path] # files[call[p].path] => pc[p] = "aw_rename"]_vars

(***************************************************************************)
(* Properties of the merger: grouping.                                     *)
(***************************************************************************)
\* C29: merge_configs is associative: merging a and b and then c gives the
\* document that merging a with the merge of b and c gives.
C29_MergeAssociative ==
    eval.op = "fold" =>
        eval.out = merge_configs(eval.global, merge_configs(eval.project, eval.session))

\* C29 witness: three layers were merged of which the first and the last
\* hold servers and the middle one holds none, and each grouping gives a
\* document that is none of the layers nor the merge of two of them.
C29_Witness ==
    /\ eval.op = "fold"
    /\ eval.global.mcp_servers.some
    /\ ~eval.project.mcp_servers.some
    /\ eval.session.mcp_servers.some
    /\ eval.out = merge_configs(eval.global, merge_configs(eval.project, eval.session))
    /\ eval.out \notin {eval.global, eval.project, eval.session,
                        merge_configs(eval.global, eval.project),
                        merge_configs(eval.project, eval.session),
                        merge_configs(eval.global, eval.session)}

(***************************************************************************)
(* Properties of the differ: key paths.                                    *)
(***************************************************************************)
\* C30: every entry diff_configs reports has a non-empty key path that names
\* a key of the global or of the project document, also when there is no
\* project configuration.
C30_DiffPathsNameKeys ==
    eval.op = "diff" =>
        \A e \in DiffSet :
            /\ e.key_path # EmptyPath
            /\ At(GlobalJson, e.key_path) \cup At(SerializeOption(eval.project), e.key_path)
                  # {}

====
